---- MODULE Spec2Model ----
(***************************************************************************)
(* Warehouse bot (Zikrig/sdelki_data): the shipment and receipt            *)
(* conversations (app/routers/shipment.py, app/routers/receipt.py), the    *)
(* constants screen (app/routers/constants.py) and the tables they write   *)
(* (app/models.py).                                                        *)
(*                                                                         *)
(* Quantities are Decimals; they are held here as integers counting        *)
(* 1/10000 of a unit, so that one digit below the Numeric(12, 3) column    *)
(* resolution is representable.  Money is integer cents as in the source.  *)
(* Python's None is -1 for integer fields and the empty sequence <<>> for  *)
(* a constants value (a str); the FSM state None is the string "None".     *)
(***************************************************************************)
EXTENDS Integers, Sequences, FiniteSets, TLC

VARIABLES
    fsm_state,      \* aiogram FSM storage: session -> current state name
    fsm_data,       \* aiogram FSM storage: session -> data bag of the session
    buttons,        \* session -> callback payloads of the last prompts sent
    task,           \* session -> position inside an in-flight finish_* handler
    products,       \* table products: id -> row
    shipments,      \* table shipments (+ shipment_items), in commit order
    receipts,       \* table receipts (+ receipt_items), in commit order
    constants,      \* table constants: set of rows [key, value]
    id_seq,         \* autoincrement sequences of shipments.id / receipts.id
    hist            \* history of the run (not program state), for the properties

fsmvars == <<fsm_state, fsm_data, buttons>>
dbvars  == <<products, shipments, receipts, constants, id_seq>>
vars    == <<fsm_state, fsm_data, buttons, task, products, shipments, receipts,
             constants, id_seq, hist>>

(***************************************************************************)
(* Bounds of the model.                                                    *)
(***************************************************************************)
MaxDocs   == 2      \* documents committed per kind
MaxLines  == 2      \* lines per draft
MaxFaults == 1      \* injected failures of a finish handler per run
MaxEdits  == 1      \* saves on the constants screen per run

Sessions == {"u1", "u2"}

None == 0 - 1
NoState == "None"

(***************************************************************************)
(* Seed data (services/seed.py).  Ids are the autoincrement ids of the     *)
(* rows in insertion order.                                                *)
(***************************************************************************)
COUNTERPARTIES ==
    <<"Abil Veshki", "AIK", "Arif", "Vektor", "Vitya kamri", "VLDV", "Vova Snek">>

PRODUCTS ==
    << [code |-> 23, name |-> "Losos 6-7",
        retail_price_cents |-> 131150, purchase_price_cents |-> 130000],
       [code |-> 40, name |-> "Forel raduzhnaya 1.8-2.7",
        retail_price_cents |-> 99500, purchase_price_cents |-> 96018],
       [code |-> 49, name |-> "Navaga M",
        retail_price_cents |-> 0, purchase_price_cents |-> 0] >>

CounterpartyIds == DOMAIN COUNTERPARTIES
ProductIds == DOMAIN PRODUCTS

(***************************************************************************)
(* Generic helpers.                                                        *)
(***************************************************************************)
RECURSIVE SumSeq(_)
SumSeq(q) == IF q = <<>> THEN 0 ELSE Head(q) + SumSeq(Tail(q))

RECURSIVE Flatten(_)
Flatten(qq) == IF qq = <<>> THEN <<>> ELSE Head(qq) \o Flatten(Tail(qq))

SeqMax(q, default) ==
    IF q = <<>> THEN default
    ELSE CHOOSE m \in {q[i] : i \in DOMAIN q} : \A i \in DOMAIN q : q[i] <= m

(***************************************************************************)
(* str(int) and int(str) of Python for non-negative integers, on           *)
(* sequences of digit characters.                                          *)
(***************************************************************************)
DigitChars == <<"0", "1", "2", "3", "4", "5", "6", "7", "8", "9">>
IsDigit(c) == \E i \in DOMAIN DigitChars : DigitChars[i] = c
DigitVal(c) == (CHOOSE i \in DOMAIN DigitChars : DigitChars[i] = c) - 1

RECURSIVE str(_)
str(n) == IF n < 10 THEN <<DigitChars[n + 1]>>
          ELSE str(n \div 10) \o <<DigitChars[(n % 10) + 1]>>

RECURSIVE int(_)
int(s) == IF s = <<>> THEN 0
          ELSE int(SubSeq(s, 1, Len(s) - 1)) * 10 + DigitVal(s[Len(s)])

\* Truth value Python gives a str-or-None (`if const_number:`): None and ""
\* are false, every other string - "0" included - is true.
TruthyStr(s) == s # <<>>

\* Truth value Python gives an int-or-None (`if last_price_result:`): None
\* and 0 are false.
TruthyInt(n) == n # None /\ n # 0

(***************************************************************************)
(* Text inputs are sequences of characters.  Decimal(text) of Python for   *)
(* plain decimal notation: an optional sign, digits, at most one point.    *)
(* The value is returned in 1/10000 units (inputs carry at most four       *)
(* fractional digits).                                                     *)
(***************************************************************************)
ReplaceComma(t) == [i \in DOMAIN t |-> IF t[i] = "," THEN "." ELSE t[i]]

RECURSIVE strip(_)
strip(t) == IF t # <<>> /\ Head(t) = " " THEN strip(Tail(t))
            ELSE IF t # <<>> /\ t[Len(t)] = " " THEN strip(SubSeq(t, 1, Len(t) - 1))
            ELSE t

AllDigits(t) == \A i \in DOMAIN t : IsDigit(t[i])

\* str.lower() on the Latin letters.
UpperChars == <<"A", "B", "C", "D", "E", "F", "G", "H", "I", "J", "K", "L", "M",
                "N", "O", "P", "Q", "R", "S", "T", "U", "V", "W", "X", "Y", "Z">>
LowerChars == <<"a", "b", "c", "d", "e", "f", "g", "h", "i", "j", "k", "l", "m",
                "n", "o", "p", "q", "r", "s", "t", "u", "v", "w", "x", "y", "z">>

lower(t) ==
    [i \in DOMAIN t |->
        IF \E k \in DOMAIN UpperChars : UpperChars[k] = t[i]
        THEN LowerChars[CHOOSE k \in DOMAIN UpperChars : UpperChars[k] = t[i]]
        ELSE t[i]]

PadFrac(f) == f \o SubSeq(<<"0", "0", "0", "0">>, 1, 4 - Len(f))

\* The special values Decimal and float also read, in any letter case:
\* the infinities, kept here as a value above every quantity, and NaN, on
\* which every comparison raises.
Infinity      == 1000000000
InfinityTexts == {<<"i", "n", "f">>, <<"i", "n", "f", "i", "n", "i", "t", "y">>}
NaNTexts      == {<<"n", "a", "n">>, <<"s", "n", "a", "n">>}

Decimal(t) ==
    LET signed == t # <<>> /\ t[1] \in {"-", "+"}
        body   == IF signed THEN Tail(t) ELSE t
        dots   == {i \in DOMAIN body : body[i] = "."}
        d      == IF dots = {} THEN Len(body) + 1 ELSE CHOOSE i \in dots : TRUE
        ip     == SubSeq(body, 1, d - 1)
        fp     == SubSeq(body, d + 1, Len(body))
        ok     == /\ Cardinality(dots) <= 1
                  /\ AllDigits(ip) /\ AllDigits(fp)
                  /\ Len(ip) + Len(fp) >= 1
                  /\ Len(fp) <= 4
        mag    == IF lower(body) \in InfinityTexts THEN Infinity
                  ELSE int(ip) * 10000 + int(PadFrac(fp))
    IN  IF lower(body) \in NaNTexts THEN [ok |-> TRUE, nan |-> TRUE, val |-> 0]
        ELSE IF ~ok /\ lower(body) \notin InfinityTexts
        THEN [ok |-> FALSE, nan |-> FALSE, val |-> 0]
        ELSE [ok |-> TRUE, nan |-> FALSE,
              val |-> IF signed /\ t[1] = "-" THEN 0 - mag ELSE mag]

\* str(Decimal) of Python for a non-negative value, and the variant that
\* drops the fractional digits.
str_Decimal_whole(q) == str(q \div 10000)

str_Decimal(q) ==
    LET f == str(q % 10000)
    IN  str(q \div 10000) \o <<".">>
          \o SubSeq(<<"0", "0", "0", "0">>, 1, 4 - Len(f)) \o f

\* The value a Numeric(12, 3) column keeps of a non-negative Decimal: rounded
\* to three fractional digits, half away from zero (models.py).
Numeric_12_3(q) == ((q + 5) \div 10) * 10

(***************************************************************************)
(* float of Python: IEEE-754 binary64.  A finite non-negative float is a   *)
(* record [bits, exp]: the significant bits, most significant first and at *)
(* most 53 of them, and the weight 2^exp of the last bit.  Every operation *)
(* rounds its exact result to 53 significant bits, ties to even.           *)
(***************************************************************************)
MantissaBits == 53
LimbBits     == 16
LimbBase     == 2 ^ LimbBits

\* The binary digits of a natural number n < 2^w, w digits of them.
Bits(n, w) == [i \in 1..w |-> (n \div 2 ^ (w - i)) % 2]

RECURSIVE IntOf(_)
IntOf(b) == IF b = <<>> THEN 0
            ELSE IntOf(SubSeq(b, 1, Len(b) - 1)) * 2 + b[Len(b)]

StripZeros(b) ==
    LET ones == {i \in DOMAIN b : b[i] = 1}
    IN  IF ones = {} THEN <<>>
        ELSE SubSeq(b, CHOOSE i \in ones : \A j \in ones : i <= j, Len(b))

\* b + 1.
IncBits(b) ==
    LET zeros == {i \in DOMAIN b : b[i] = 0}
        last  == IF zeros = {} THEN 0
                 ELSE CHOOSE i \in zeros : \A j \in zeros : j <= i
    IN  IF zeros = {} THEN <<1>> \o [i \in DOMAIN b |-> 0]
        ELSE [i \in DOMAIN b |-> IF i < last THEN b[i]
                                 ELSE IF i = last THEN 1 ELSE 0]

\* The product of the bit row b and a natural number m < 2^14, worked out
\* limb by limb from the least significant end; j limbs are done and
\* `carry` comes out of them.
RECURSIVE MulLimbs(_, _, _, _)
MulLimbs(b, m, j, carry) ==
    IF LimbBits * j >= Len(b) THEN Bits(carry, 31)
    ELSE LET hi   == Len(b) - LimbBits * j
             lo   == IF hi > LimbBits THEN hi - LimbBits + 1 ELSE 1
             prod == IntOf(SubSeq(b, lo, hi)) * m + carry
         IN  MulLimbs(b, m, j + 1, prod \div 2 ^ (hi - lo + 1))
                \o Bits(prod % 2 ^ (hi - lo + 1), hi - lo + 1)

MulBits(b, m) == MulLimbs(b, m, 0, 0)

\* Round to nearest, ties to even; `sticky` tells that the exact value has
\* further non-zero bits below the ones given.
round_half_even(b, exp, sticky) ==
    LET sig   == StripZeros(b)
        extra == Len(sig) - MantissaBits
    IN  IF extra <= 0 THEN [bits |-> sig, exp |-> exp]
        ELSE LET kept == SubSeq(sig, 1, MantissaBits)
                 rest == sticky \/ \E i \in (MantissaBits + 2)..Len(sig) : sig[i] = 1
                 up   == /\ sig[MantissaBits + 1] = 1
                         /\ (rest \/ kept[MantissaBits] = 1)
                 inc  == IncBits(kept)
             IN  IF ~up THEN [bits |-> kept, exp |-> exp + extra]
                 ELSE IF Len(inc) > MantissaBits
                 THEN [bits |-> SubSeq(inc, 1, MantissaBits), exp |-> exp + extra + 1]
                 ELSE [bits |-> inc, exp |-> exp + extra]

\* The binary digits of r/d (r < d <= 10000) after the ones in b, a limb at
\* a time, until the remainder is zero or the rounding is decided.
RECURSIVE FractionBits(_, _, _, _)
FractionBits(b, r, d, e) ==
    IF r = 0 \/ Len(StripZeros(b)) >= MantissaBits + 2
    THEN [bits |-> b, exp |-> e, sticky |-> r # 0]
    ELSE FractionBits(b \o Bits((r * LimbBase) \div d, LimbBits),
                      (r * LimbBase) % d, d, e - LimbBits)

\* float(text) of a non-negative decimal below 2^31 / 10000, given in
\* 1/10000 units: the float nearest to the decimal value.
float(q) ==
    LET digits == FractionBits(Bits(q \div 10000, 31), q % 10000, 10000, 0)
    IN  round_half_even(digits.bits, digits.exp, digits.sticky)

\* x * y of two floats, for a y of few significant bits (a small whole
\* number): the exact product, rounded.
float_mul(x, y) ==
    round_half_even(MulBits(x.bits, IntOf(y.bits)), x.exp + y.exp, FALSE)

\* int(x) of a float: truncation.
int_float(x) ==
    IF x.exp >= 0 THEN IntOf(x.bits \o [i \in 1..x.exp |-> 0])
    ELSE IntOf(SubSeq(x.bits, 1, Len(x.bits) + x.exp))

(***************************************************************************)
(* The FSM storage of one session (aiogram MemoryStorage record): the data *)
(* keys the two routers use.                                               *)
(***************************************************************************)
EmptyData ==
    [counterparty_id    |-> None,
     items              |-> <<>>,
     current_product_id |-> None,
     current_quantity   |-> None,
     requested_quantity |-> None]

\* The inline keyboard of the last prompt sent to the session: the callback
\* payloads on it (a payload ending in ":" stands for one button per row of
\* the list) and the values two of them carry, use_last_price:<cents> (with
\* the caption of the prompt) and use_stock_qty:<quantity>; and the payloads
\* on earlier messages of the chat, which stay pressable.
Keyboard(payloads) ==
    [kb |-> payloads, use_last_price |-> None, caption |-> "none",
     use_stock_qty |-> <<>>, earlier |-> {}]

NoButtons == Keyboard({})

\* keyboards.main_menu_kb
main_menu_kb ==
    Keyboard({"start_shipment", "start_receipt", "current_stock", "export_sales",
              "manage_constants", "manage_suppliers", "manage_products"})

PriceButtons(payloads, cents, caption) ==
    [kb |-> payloads, use_last_price |-> cents, caption |-> caption,
     use_stock_qty |-> <<>>, earlier |-> {}]

\* f"use_stock_qty:{current_stock}": the button carries the balance as text.
StockButtons(quantity) ==
    [kb |-> {"enter_different_qty", "use_stock_qty:", "back_to_product"},
     use_last_price |-> None, caption |-> "none",
     use_stock_qty |-> str_Decimal(quantity), earlier |-> {}]

\* A finish handler in flight: where it stands, the number it computed and
\* the values it computed it from, the id its header drew.
Idle == [pc |-> "idle", kind |-> "none", doc_number |-> None, id |-> None,
         const_number |-> <<>>, last_doc |-> None]

(***************************************************************************)
(* Queries on the tables.                                                  *)
(***************************************************************************)
ShipmentItems == Flatten([i \in DOMAIN shipments |-> shipments[i].items])
ReceiptItems  == Flatten([i \in DOMAIN receipts |-> receipts[i].items])

\* The rows of one product.
RECURSIVE OfProduct(_, _)
OfProduct(rows, p) ==
    IF rows = <<>> THEN <<>>
    ELSE IF Head(rows).product_id = p THEN <<Head(rows)>> \o OfProduct(Tail(rows), p)
    ELSE OfProduct(Tail(rows), p)

\* sum(quantity) over the rows of product p
SumQuantity(rows, p) ==
    LET mine == OfProduct(rows, p)
    IN  SumSeq([i \in DOMAIN mine |-> mine[i].quantity])

ProductIdsIn(rows) == {rows[i].product_id : i \in DOMAIN rows}

\* select Constants.value where key = k  ... scalar_one_or_none()
ConstantValue(k) ==
    IF \E r \in constants : r.key = k
    THEN (CHOOSE r \in constants : r.key = k).value
    ELSE <<>>

\* existing.value = v if the row exists, else session.add(Constants(key, v))
UpsertConstant(k, v) ==
    {r \in constants : r.key # k} \cup {[key |-> k, value |-> v]}

DocNumbers(docs) == [i \in DOMAIN docs |-> docs[i].doc_number]

\* get_product_stock(product_id), imported from routers/reports.py: total
\* received minus total shipped over the committed documents.
get_product_stock(p) == SumQuantity(ReceiptItems, p) - SumQuantity(ShipmentItems, p)

\* get_average_purchase_price(product_id), imported from routers/reports.py:
\* the average purchase_price_cents over the product's shipment lines, else
\* the product's stored purchase price.
get_average_purchase_price(p) ==
    LET mine  == OfProduct(ShipmentItems, p)
        costs == [i \in DOMAIN mine |-> mine[i].purchase_price_cents]
    IN  IF costs = <<>> THEN products[p].purchase_price_cents
        ELSE SumSeq(costs) \div Len(costs)

\* reports.current_stock: the two grouped subqueries ...
receipt_subq ==
    {[product_id |-> p, total_receipt |-> SumQuantity(ReceiptItems, p)] :
        p \in ProductIdsIn(ReceiptItems)}

shipment_subq ==
    {[product_id |-> p, total_shipment |-> SumQuantity(ShipmentItems, p)] :
        p \in ProductIdsIn(ShipmentItems)}

\* ... and the statement: products LEFT JOIN receipt_subq LEFT JOIN
\* shipment_subq, coalesce(total_receipt, 0) - coalesce(total_shipment, 0).
\* One result row per product.  (The inner-join variant drops the products
\* that lack a row in either subquery.)
current_stock_stmt_inner ==
    {[product_id |-> p, balance |-> r.total_receipt - x.total_shipment] :
        <<p, r, x>> \in {y \in (DOMAIN products) \X receipt_subq \X shipment_subq :
                            y[2].product_id = y[1] /\ y[3].product_id = y[1]}}

current_stock_stmt ==
    {[product_id |-> p,
      balance |->
        (IF \E r \in receipt_subq : r.product_id = p
         THEN (CHOOSE r \in receipt_subq : r.product_id = p).total_receipt ELSE 0)
        - (IF \E x \in shipment_subq : x.product_id = p
           THEN (CHOOSE x \in shipment_subq : x.product_id = p).total_shipment ELSE 0)] :
        p \in DOMAIN products}

\* The balance the report shows for product p (a product without a result
\* row is not listed, like one whose balance is zero).
current_stock_balance(p) ==
    IF \E row \in current_stock_stmt : row.product_id = p
    THEN (CHOOSE row \in current_stock_stmt : row.product_id = p).balance
    ELSE 0

\* (The variant without the counterparty filter.)
last_sale_price_any_counterparty(cp, p) ==
    LET Hit(i)  == \E j \in DOMAIN shipments[i].items :
                       shipments[i].items[j].product_id = p
        hits    == {i \in DOMAIN shipments : Hit(i)}
        top     == CHOOSE i \in hits : \A k \in hits : shipments[k].id <= shipments[i].id
    IN  IF hits = {} THEN {None}
        ELSE {shipments[top].items[j].sale_price_cents :
                j \in {j \in DOMAIN shipments[top].items :
                          shipments[top].items[j].product_id = p}}

\* shipment.py: select ShipmentItem.sale_price_cents join Shipment where
\* counterparty and product match, order by Shipment.id desc, limit 1.
\* Several lines of the newest matching shipment tie on Shipment.id: any of
\* them may be the row returned.  {None} when there is no row.
last_sale_price(cp, p) ==
    LET Hit(i)  == /\ shipments[i].counterparty_id = cp
                   /\ \E j \in DOMAIN shipments[i].items :
                          shipments[i].items[j].product_id = p
        hits    == {i \in DOMAIN shipments : Hit(i)}
        top     == CHOOSE i \in hits : \A k \in hits : shipments[k].id <= shipments[i].id
    IN  IF hits = {} THEN {None}
        ELSE {shipments[top].items[j].sale_price_cents :
                j \in {j \in DOMAIN shipments[top].items :
                          shipments[top].items[j].product_id = p}}

\* receipt.py: the same lookup on receipts / receipt_items.
last_purchase_price(cp, p) ==
    LET Hit(i)  == /\ receipts[i].counterparty_id = cp
                   /\ \E j \in DOMAIN receipts[i].items :
                          receipts[i].items[j].product_id = p
        hits    == {i \in DOMAIN receipts : Hit(i)}
        top     == CHOOSE i \in hits : \A k \in hits : receipts[k].id <= receipts[i].id
    IN  IF hits = {} THEN {None}
        ELSE {receipts[top].items[j].purchase_price_cents :
                j \in {j \in DOMAIN receipts[top].items :
                          receipts[top].items[j].product_id = p}}

(***************************************************************************)
(* Initial state: on_startup has created the tables and seeded them.       *)
(***************************************************************************)
NoCommit  == [kind |-> "none", doc_number |-> None, const_number |-> <<>>,
              last_doc |-> None, max_before |-> None, after_fault |-> FALSE]
NoFailure == [kind |-> "none", stage |-> "none", doc_number |-> None,
              clean |-> TRUE, draft_kept |-> TRUE]
NoBefore  == [shipments |-> <<>>, receipts |-> <<>>, constants |-> {},
              products |-> <<>>, fsm_state |-> NoState, fsm_data |-> EmptyData]

Init ==
    /\ fsm_state = [s \in Sessions |-> NoState]
    /\ fsm_data  = [s \in Sessions |-> EmptyData]
    /\ buttons   = [s \in Sessions |-> NoButtons]
    /\ task      = [s \in Sessions |-> Idle]
    /\ products  = PRODUCTS
    /\ shipments = <<>>
    /\ receipts  = <<>>
    /\ constants = {}
    /\ id_seq    = [shipments |-> 0, receipts |-> 0]
    /\ hist      = [faults |-> 0, edits |-> 0, empty_finish |-> {}, unhandled |-> {},
                    commit |-> NoCommit,
                    failure |-> NoFailure,
                    before |-> [s \in Sessions |-> NoBefore]]

\* state.set_state / state.update_data of the session's own FSMContext, and
\* the keyboard of the prompt the handler sends.
StoreFsmShared(s, st, data, btn) ==
    /\ fsm_state' = [fsm_state EXCEPT ![s] = st]
    /\ fsm_data'  = [t \in Sessions |-> data]
    /\ buttons'   = [buttons EXCEPT ![s] =
                        [btn EXCEPT !.earlier = buttons[s].earlier \cup btn.earlier]]

StoreFsm(s, st, data, btn) ==
    /\ fsm_state' = [fsm_state EXCEPT ![s] = st]
    /\ fsm_data'  = [fsm_data EXCEPT ![s] = data]
    /\ buttons'   = [buttons EXCEPT ![s] =
                        [btn EXCEPT !.earlier = buttons[s].earlier \cup btn.earlier]]

\* A handler of session s runs only when no other input of s is in flight.
Ready(s) == task[s].pc = "idle"

(***************************************************************************)
(* routers/start.py                                                        *)
(***************************************************************************)
\* message.answer: the menu is a new message; the message before it keeps
\* its keyboard.
cmd_start(s) ==
    /\ Ready(s)
    /\ StoreFsm(s, fsm_state[s], fsm_data[s],
                [main_menu_kb EXCEPT !.earlier = buttons[s].kb])
    /\ UNCHANGED <<task, dbvars, hist>>

(***************************************************************************)
(* routers/shipment.py                                                     *)
(***************************************************************************)
start_shipment(s) ==
    /\ Ready(s)
    /\ StoreFsm(s, "ShipmentStates:waiting_counterparty", fsm_data[s],
                Keyboard({"cp:", "main"}))
    /\ UNCHANGED <<task, dbvars, hist>>

\* F.data == "main", registered without a state filter in the first router
\* that knows "main": it redraws the menu and touches neither state nor data.
back_main(s) ==
    /\ Ready(s)
    /\ StoreFsm(s, fsm_state[s], fsm_data[s], main_menu_kb)
    /\ UNCHANGED <<task, dbvars, hist>>

\* (The variant that keeps the lines of the draft.)
chosen_counterparty_keeps_items(s, cp_id) ==
    /\ Ready(s)
    /\ StoreFsm(s, "ShipmentStates:waiting_product",
                [fsm_data[s] EXCEPT !.counterparty_id = cp_id],
                Keyboard({"p:", "main"}))
    /\ UNCHANGED <<task, dbvars, hist>>

chosen_counterparty(s, cp_id) ==
    /\ Ready(s)
    /\ StoreFsm(s, "ShipmentStates:waiting_product",
                [fsm_data[s] EXCEPT !.counterparty_id = cp_id, !.items = <<>>],
                Keyboard({"p:", "main"}))
    /\ UNCHANGED <<task, dbvars, hist>>

\* chosen_counterparty left by an exception of the product query (the
\* database fails): update_data has emptied the draft, set_state is not
\* reached.  The handler has no state filter, so the press of a counterparty
\* button of an earlier message reaches it in every state.
chosen_counterparty_raises(s, cp_id) ==
    /\ Ready(s)
    /\ hist.faults < MaxFaults
    /\ StoreFsm(s, fsm_state[s],
                [fsm_data[s] EXCEPT !.counterparty_id = cp_id, !.items = <<>>],
                buttons[s])
    /\ hist' = [hist EXCEPT !.faults = @ + 1]
    /\ UNCHANGED <<task, dbvars>>

\* (The variant that skips the quantity prompt when the session data still
\* hold a quantity.)
chosen_product_keeps_quantity(s, product_id) ==
    /\ Ready(s)
    /\ IF fsm_data[s].current_quantity = None
       THEN StoreFsm(s, "ShipmentStates:waiting_qty",
                     [fsm_data[s] EXCEPT !.current_product_id = product_id],
                     NoButtons)
       ELSE StoreFsm(s, "ShipmentStates:waiting_price",
                     [fsm_data[s] EXCEPT !.current_product_id = product_id],
                     PriceButtons({"use_last_price:", "enter_new_price",
                                   "back_to_product"},
                                  products[product_id].retail_price_cents,
                                  "retail"))
    /\ UNCHANGED <<task, dbvars, hist>>

chosen_product(s, product_id) ==
    /\ Ready(s)
    /\ StoreFsm(s, "ShipmentStates:waiting_qty",
                [fsm_data[s] EXCEPT !.current_product_id = product_id],
                NoButtons)
    /\ UNCHANGED <<task, dbvars, hist>>

\* The price prompt of input_quantity and use_stock_qty: the last sale price
\* of the pair when it is truthy, else the product's retail price.
shipment_price_prompt(last_price_result, product_id, back) ==
    LET payloads == {"use_last_price:", "enter_new_price"} \cup back
    IN  IF TruthyInt(last_price_result)
        THEN PriceButtons(payloads, last_price_result, "last")
        ELSE PriceButtons(payloads, products[product_id].retail_price_cents, "retail")

\* `if qty > current_stock:` and the variant that also refuses the whole
\* balance.
stock_insufficient_at_equal(qty, current_stock) == qty >= current_stock

stock_insufficient(qty, current_stock) == qty > current_stock

input_quantity(s, text) ==
    /\ Ready(s)
    /\ fsm_state[s] = "ShipmentStates:waiting_qty"
    /\ LET parsed        == Decimal(strip(ReplaceComma(text)))
           qty           == parsed.val
           data          == fsm_data[s]
           product_id    == data.current_product_id
           current_stock == get_product_stock(product_id)
       IN  IF ~parsed.ok \/ parsed.nan \/ qty <= 0
           THEN UNCHANGED fsmvars
           ELSE IF stock_insufficient(qty, current_stock)
           THEN StoreFsm(s, "ShipmentStates:stock_insufficient",
                         [data EXCEPT !.requested_quantity = qty],
                         IF current_stock > 0 THEN StockButtons(current_stock)
                         ELSE Keyboard({"enter_different_qty", "back_to_product"}))
           ELSE IF data.counterparty_id = None \/ product_id \notin DOMAIN products
           THEN \* KeyError / NoResultFound after current_quantity was stored
                StoreFsm(s, fsm_state[s], [data EXCEPT !.current_quantity = qty],
                         buttons[s])
           ELSE \E last_price_result \in last_sale_price(data.counterparty_id, product_id) :
                StoreFsm(s, "ShipmentStates:waiting_price",
                         [data EXCEPT !.current_quantity = qty],
                         shipment_price_prompt(last_price_result, product_id,
                                               {"back_to_product"}))
    /\ UNCHANGED <<task, dbvars, hist>>

\* line_number=len(data.get("items", [])) + 1, and the variant that numbers
\* every line 1.
line_number_one(items) == 1

line_number(items) == Len(items) + 1

\* (The variant that books every line at the retail price.)
process_price_selection_retail(s, price_cents) ==
    LET data       == fsm_data[s]
        product_id == data.current_product_id
        item       == [line_number          |-> line_number(data.items),
                       product_id           |-> product_id,
                       product_name         |-> products[product_id].name,
                       product_code         |-> products[product_id].code,
                       quantity             |-> data.current_quantity,
                       sale_price_cents     |-> products[product_id].retail_price_cents,
                       purchase_price_cents |-> get_average_purchase_price(product_id)]
    IN  IF \/ product_id = None \/ data.current_quantity = None
           \/ data.counterparty_id = None \/ product_id \notin DOMAIN products
        THEN UNCHANGED fsmvars
        ELSE StoreFsm(s, "ShipmentStates:confirming_add_more",
                      [data EXCEPT !.items = Append(data.items, item)],
                      Keyboard({"add_more", "finish_shipment", "back_to_product"}))

\* Appends the line to the draft (items) and asks "add more?".
process_price_selection(s, price_cents) ==
    LET data       == fsm_data[s]
        product_id == data.current_product_id
        item       == [line_number          |-> line_number(data.items),
                       product_id           |-> product_id,
                       product_name         |-> products[product_id].name,
                       product_code         |-> products[product_id].code,
                       quantity             |-> data.current_quantity,
                       sale_price_cents     |-> price_cents,
                       purchase_price_cents |-> get_average_purchase_price(product_id)]
    IN  IF \/ product_id = None \/ data.current_quantity = None
           \/ data.counterparty_id = None \/ product_id \notin DOMAIN products
        THEN UNCHANGED fsmvars
        ELSE StoreFsm(s, "ShipmentStates:confirming_add_more",
                      [data EXCEPT !.items = Append(data.items, item)],
                      Keyboard({"add_more", "finish_shipment", "back_to_product"}))

use_last_price(s) ==
    /\ Ready(s)
    /\ fsm_state[s] = "ShipmentStates:waiting_price"
    /\ buttons[s].use_last_price # None
    /\ Len(fsm_data[s].items) < MaxLines
    /\ process_price_selection(s, int(str(buttons[s].use_last_price)))
    /\ UNCHANGED <<task, dbvars, hist>>

enter_new_price(s) ==
    /\ Ready(s)
    /\ fsm_state[s] = "ShipmentStates:waiting_price"
    /\ StoreFsm(s, "ShipmentStates:waiting_new_price", fsm_data[s], NoButtons)
    /\ UNCHANGED <<task, dbvars, hist>>

back_to_product_from_price(s) ==
    /\ Ready(s)
    /\ fsm_state[s] = "ShipmentStates:waiting_price"
    /\ StoreFsm(s, "ShipmentStates:waiting_product", fsm_data[s],
                Keyboard({"p:", "main"}))
    /\ UNCHANGED <<task, dbvars, hist>>

\* float(raw_price), then int(price_rub * 100): the text is read as a
\* binary float, multiplied by the float 100.0 and truncated; int() of an
\* infinity or of NaN raises.
price_to_cents(text) ==
    LET parsed == Decimal(ReplaceComma(strip(text)))
    IN  IF ~parsed.ok \/ parsed.nan \/ parsed.val < 0 \/ parsed.val = Infinity
        THEN [ok |-> FALSE, cents |-> 0]
        ELSE [ok |-> TRUE,
              cents |-> int_float(float_mul(float(parsed.val), float(100 * 10000)))]

input_new_price(s, text) ==
    /\ Ready(s)
    /\ fsm_state[s] = "ShipmentStates:waiting_new_price"
    /\ LET price == price_to_cents(text)
       IN  IF ~price.ok THEN UNCHANGED fsmvars
           ELSE /\ Len(fsm_data[s].items) < MaxLines
                /\ process_price_selection(s, price.cents)
    /\ UNCHANGED <<task, dbvars, hist>>

\* (The variant that starts the list of lines afresh.)
add_more_items_clears(s) ==
    /\ Ready(s)
    /\ fsm_state[s] = "ShipmentStates:confirming_add_more"
    /\ IF fsm_data[s].counterparty_id = None THEN UNCHANGED fsmvars
       ELSE StoreFsm(s, "ShipmentStates:waiting_product",
                     [fsm_data[s] EXCEPT !.items = <<>>],
                     Keyboard({"p:", "finish_shipment"}))
    /\ UNCHANGED <<task, dbvars, hist>>

add_more_items(s) ==
    /\ Ready(s)
    /\ fsm_state[s] = "ShipmentStates:confirming_add_more"
    /\ IF fsm_data[s].counterparty_id = None THEN UNCHANGED fsmvars
       ELSE StoreFsm(s, "ShipmentStates:waiting_product", fsm_data[s],
                     Keyboard({"p:", "finish_shipment"}))
    /\ UNCHANGED <<task, dbvars, hist>>

back_to_product_from_confirm(s) ==
    /\ Ready(s)
    /\ fsm_state[s] = "ShipmentStates:confirming_add_more"
    /\ StoreFsm(s, "ShipmentStates:waiting_product", fsm_data[s],
                Keyboard({"p:", "main"}))
    /\ UNCHANGED <<task, dbvars, hist>>

enter_different_qty(s) ==
    /\ Ready(s)
    /\ fsm_state[s] = "ShipmentStates:stock_insufficient"
    /\ StoreFsm(s, "ShipmentStates:waiting_qty", fsm_data[s], NoButtons)
    /\ UNCHANGED <<task, dbvars, hist>>

use_stock_qty(s) ==
    /\ Ready(s)
    /\ fsm_state[s] = "ShipmentStates:stock_insufficient"
    /\ Decimal(buttons[s].use_stock_qty).ok
    /\ LET stock_qty  == Decimal(buttons[s].use_stock_qty).val
           data       == [fsm_data[s] EXCEPT !.current_quantity = stock_qty]
           product_id == data.current_product_id
       IN  IF \/ product_id = None \/ data.counterparty_id = None
              \/ product_id \notin DOMAIN products
           THEN StoreFsm(s, fsm_state[s], data, buttons[s])
           ELSE \E last_price_result \in last_sale_price(data.counterparty_id, product_id) :
                StoreFsm(s, "ShipmentStates:waiting_price", data,
                         shipment_price_prompt(last_price_result, product_id, {}))
    /\ UNCHANGED <<task, dbvars, hist>>

back_to_product(s) ==
    /\ Ready(s)
    /\ fsm_state[s] = "ShipmentStates:stock_insufficient"
    /\ StoreFsm(s, "ShipmentStates:waiting_product", fsm_data[s],
                Keyboard({"p:", "main"}))
    /\ UNCHANGED <<task, dbvars, hist>>

\* A session whose flushed header outlives the failed attempt.
rollback_keeps_header(docs, header) == Append(docs, header)

\* Leaving `async with AsyncSessionLocal() as session` by an exception before
\* session.commit(): the flushed header and the added lines are rolled back.
rollback(docs, header) == docs

\* finish_shipment: the number of the new document.
next_shipment_number_reuses_stored ==
    LET const_number == ConstantValue("last_shipment_number")
        last_doc     == SeqMax(DocNumbers(shipments), None)
    IN  IF TruthyStr(const_number) THEN int(const_number)
        ELSE (IF TruthyInt(last_doc) THEN last_doc ELSE 0) + 1

next_shipment_number_zero_is_unset ==
    LET const_number == ConstantValue("last_shipment_number")
        last_doc     == SeqMax(DocNumbers(shipments), None)
    IN  IF TruthyStr(const_number) /\ int(const_number) # 0 THEN int(const_number) + 1
        ELSE (IF TruthyInt(last_doc) THEN last_doc ELSE 0) + 1

next_shipment_number ==
    LET const_number == ConstantValue("last_shipment_number")
        last_doc     == SeqMax(DocNumbers(shipments), None)
    IN  IF TruthyStr(const_number) THEN int(const_number) + 1
        ELSE (IF TruthyInt(last_doc) THEN last_doc ELSE 0) + 1

\* `if not items_data:` of the finish handlers, and the variant that lets
\* every draft through.
not_items_data_never(items_data) == FALSE

not_items_data(items_data) == items_data = <<>>

InFlight(kind) == Cardinality({t \in Sessions : task[t].kind = kind})

Snapshot(s) ==
    [shipments |-> shipments, receipts |-> receipts, constants |-> constants,
     products |-> products, fsm_state |-> fsm_state[s], fsm_data |-> fsm_data[s]]

\* (The variant that begins the finalization in whatever state the press
\* finds the session.)
finish_shipment_in_any_state(s) ==
    /\ Ready(s)
    /\ fsm_state[s] # "ShipmentStates:confirming_add_more"
    /\ fsm_data[s].counterparty_id # None /\ fsm_data[s].items # <<>>
    /\ Len(shipments) + InFlight("shipment") < MaxDocs
    /\ task' = [task EXCEPT ![s] =
           [pc |-> "flushed", kind |-> "shipment",
            doc_number |-> next_shipment_number,
            id |-> id_seq.shipments + 1,
            const_number |-> ConstantValue("last_shipment_number"),
            last_doc |-> SeqMax(DocNumbers(shipments), None)]]
    /\ id_seq' = [id_seq EXCEPT !.shipments = @ + 1]
    /\ hist' = [hist EXCEPT !.before[s] = Snapshot(s)]
    /\ UNCHANGED <<fsmvars, products, shipments, receipts, constants>>

\* A press of "finish_shipment" while the session is not at "add more?": the
\* state filter of finish_shipment does not match, no handler runs and the
\* update is dropped.
finish_shipment_unhandled(s) ==
    /\ Ready(s)
    /\ fsm_state[s] # "ShipmentStates:confirming_add_more"
    /\ hist' = [hist EXCEPT !.unhandled = @ \cup {"finish_shipment"}]
    /\ UNCHANGED <<fsmvars, task, dbvars>>

\* finish_shipment up to session.flush(): the empty-draft check, the reads,
\* the number, the INSERT of the header (which draws its id).
finish_shipment(s) ==
    /\ Ready(s)
    /\ fsm_state[s] = "ShipmentStates:confirming_add_more"
    /\ LET data == fsm_data[s]
       IN  IF data.counterparty_id = None
           THEN UNCHANGED <<task, id_seq, hist>>
           ELSE IF not_items_data(data.items)
           THEN /\ hist' = [hist EXCEPT !.empty_finish = @ \cup {"shipment"}]
                /\ UNCHANGED <<task, id_seq>>
           ELSE /\ Len(shipments) + InFlight("shipment") < MaxDocs
                /\ task' = [task EXCEPT ![s] =
                       [pc |-> "flushed", kind |-> "shipment",
                        doc_number |-> next_shipment_number,
                        id |-> id_seq.shipments + 1,
                        const_number |-> ConstantValue("last_shipment_number"),
                        last_doc |-> SeqMax(DocNumbers(shipments), None)]]
                /\ id_seq' = [id_seq EXCEPT !.shipments = @ + 1]
                /\ hist' = [hist EXCEPT !.before[s] = Snapshot(s)]
    /\ UNCHANGED <<fsmvars, products, shipments, receipts, constants>>

\* (The variant that computes the cost of the line anew at finish.)
shipment_item_recomputed(stored_item) ==
    [line_number          |-> stored_item.line_number,
     product_id           |-> stored_item.product_id,
     product_name         |-> stored_item.product_name,
     product_code         |-> stored_item.product_code,
     quantity             |-> Numeric_12_3(stored_item.quantity),
     sale_price_cents     |-> stored_item.sale_price_cents,
     purchase_price_cents |-> get_average_purchase_price(stored_item.product_id)]

shipment_item(stored_item) ==
    [line_number          |-> stored_item.line_number,
     product_id           |-> stored_item.product_id,
     product_name         |-> stored_item.product_name,
     product_code         |-> stored_item.product_code,
     quantity             |-> Numeric_12_3(stored_item.quantity),
     sale_price_cents     |-> stored_item.sale_price_cents,
     purchase_price_cents |-> stored_item.purchase_price_cents]

\* (The variant that also refuses a line above the balance.)
shipment_items_raise_on_shortage(items_data) ==
    \E i \in DOMAIN items_data :
        \/ items_data[i].product_id \notin DOMAIN products
        \/ "sale_price_cents" \notin DOMAIN items_data[i]
        \/ items_data[i].quantity > get_product_stock(items_data[i].product_id)

\* Whether the loop over items_data raises (a product that no longer exists,
\* a stored item without the key the loop reads).
shipment_items_raise(items_data) ==
    \E i \in DOMAIN items_data :
        \/ items_data[i].product_id \notin DOMAIN products
        \/ "sale_price_cents" \notin DOMAIN items_data[i]

Failure(s, stage, clean) ==
    [kind |-> task[s].kind, stage |-> stage, doc_number |-> task[s].doc_number,
     clean |-> clean,
     draft_kept |-> /\ fsm_state[s] = hist.before[s].fsm_state
                    /\ fsm_data[s] = hist.before[s].fsm_data]

Commit(s, docs) ==
    [kind |-> task[s].kind, doc_number |-> task[s].doc_number,
     const_number |-> task[s].const_number, last_doc |-> task[s].last_doc,
     max_before |-> SeqMax(DocNumbers(docs), 0),
     after_fault |-> hist.failure.kind = task[s].kind /\ hist.failure.stage = "flushed"]

\* finish_shipment from the loop over the stored items to the first
\* session.commit(): header and lines become visible together.
finish_shipment_commit(s) ==
    /\ task[s].pc = "flushed" /\ task[s].kind = "shipment"
    /\ LET items_data == fsm_data[s].items
           header     == [id |-> task[s].id, doc_number |-> task[s].doc_number,
                          counterparty_id |-> fsm_data[s].counterparty_id,
                          items |-> <<>>]
       IN  IF shipment_items_raise(items_data)
           THEN /\ shipments' = rollback(shipments, header)
                /\ task' = [task EXCEPT ![s] = Idle]
                /\ hist' = [hist EXCEPT !.before[s] = NoBefore,
                                        !.failure = Failure(s, "flushed", TRUE)]
           ELSE /\ shipments' = Append(shipments,
                       [header EXCEPT !.items =
                           [i \in DOMAIN items_data |-> shipment_item(items_data[i])]])
                /\ task' = [task EXCEPT ![s].pc = "committed"]
                /\ hist' = [hist EXCEPT !.commit =
                       Commit(s, shipments),
                       !.failure = IF @.kind = "shipment" THEN NoFailure ELSE @]
    /\ UNCHANGED <<fsmvars, products, receipts, constants, id_seq>>

\* finish_shipment from session.refresh to the second session.commit(): the
\* constant last_shipment_number is updated or inserted.
finish_shipment_number(s) ==
    /\ task[s].pc = "committed" /\ task[s].kind = "shipment"
    /\ constants' = UpsertConstant("last_shipment_number", str(task[s].doc_number))
    /\ task' = [task EXCEPT ![s].pc = "numbered"]
    /\ UNCHANGED <<fsmvars, products, shipments, receipts, id_seq, hist>>

\* finish_shipment after the second commit: the keyboard is removed, the PDFs
\* are built and sent, and state.clear() drops state and data.
finish_shipment_clear(s) ==
    /\ task[s].pc = "numbered" /\ task[s].kind = "shipment"
    /\ StoreFsm(s, NoState, EmptyData, NoButtons)
    /\ task' = [task EXCEPT ![s] = Idle]
    /\ hist' = [hist EXCEPT !.before[s] = NoBefore]
    /\ UNCHANGED dbvars

(***************************************************************************)
(* A finish handler that is left by an exception (the database or the      *)
(* Telegram API fails): the handler ends, whatever was committed stays,    *)
(* the open transaction is rolled back, state.clear() is not reached.      *)
(***************************************************************************)
Persisted(b) ==
    /\ b.shipments = shipments /\ b.receipts = receipts
    /\ b.constants = constants /\ b.products = products

Fault(s, stage) ==
    /\ task[s].pc = stage
    /\ hist.faults < MaxFaults
    /\ task' = [task EXCEPT ![s] = Idle]
    /\ hist' = [hist EXCEPT !.faults = @ + 1,
                            !.before[s] = NoBefore,
                            !.failure = Failure(s, stage, Persisted(hist.before[s]))]

\* ... between the flush and the first commit (a product lookup, the commit).
fault_before_commit(s) ==
    /\ Fault(s, "flushed")
    /\ shipments' = IF task[s].kind = "shipment"
                    THEN rollback(shipments, [id |-> task[s].id,
                                              doc_number |-> task[s].doc_number,
                                              counterparty_id |-> fsm_data[s].counterparty_id,
                                              items |-> <<>>])
                    ELSE shipments
    /\ receipts' = IF task[s].kind = "receipt"
                   THEN rollback(receipts, [id |-> task[s].id,
                                            doc_number |-> task[s].doc_number,
                                            counterparty_id |-> fsm_data[s].counterparty_id,
                                            items |-> <<>>])
                   ELSE receipts
    /\ UNCHANGED <<fsmvars, products, constants, id_seq>>

\* ... between the first commit and the second (the constant's update).
fault_before_number(s) ==
    /\ Fault(s, "committed")
    /\ UNCHANGED <<fsmvars, dbvars>>

\* ... after the second commit (edit_reply_markup, the PDFs, the replies).
fault_before_clear(s) ==
    /\ Fault(s, "numbered")
    /\ UNCHANGED <<fsmvars, dbvars>>

(***************************************************************************)
(* routers/receipt.py                                                      *)
(***************************************************************************)
start_receipt(s) ==
    /\ Ready(s)
    /\ StoreFsm(s, "ReceiptStates:waiting_counterparty", fsm_data[s],
                Keyboard({"rcp_cp:", "main"}))
    /\ UNCHANGED <<task, dbvars, hist>>

rcp_chosen_counterparty(s, counterparty_id) ==
    /\ Ready(s)
    /\ StoreFsm(s, "ReceiptStates:waiting_product",
                [fsm_data[s] EXCEPT !.counterparty_id = counterparty_id, !.items = <<>>],
                Keyboard({"rcp_p:", "main"}))
    /\ UNCHANGED <<task, dbvars, hist>>

rcp_chosen_counterparty_raises(s, counterparty_id) ==
    /\ Ready(s)
    /\ hist.faults < MaxFaults
    /\ StoreFsm(s, fsm_state[s],
                [fsm_data[s] EXCEPT !.counterparty_id = counterparty_id, !.items = <<>>],
                buttons[s])
    /\ hist' = [hist EXCEPT !.faults = @ + 1]
    /\ UNCHANGED <<task, dbvars>>

rcp_chosen_product(s, product_id) ==
    /\ Ready(s)
    /\ StoreFsm(s, "ReceiptStates:waiting_qty",
                [fsm_data[s] EXCEPT !.current_product_id = product_id],
                NoButtons)
    /\ UNCHANGED <<task, dbvars, hist>>

\* (The variant that tests the last price by truthiness, as shipment.py does.)
receipt_price_prompt_truthy(last_price, product_id) ==
    LET payloads == {"rcp_use_last_price:", "rcp_enter_new_price"}
    IN  IF last_price # None /\ last_price # 0
        THEN PriceButtons(payloads, last_price, "last")
        ELSE PriceButtons(payloads, products[product_id].purchase_price_cents,
                          "purchase")

\* The price prompt of the receipt: the last purchase price of the pair when
\* there is one (`is not None`), else the product's purchase price.
receipt_price_prompt(last_price, product_id) ==
    LET payloads == {"rcp_use_last_price:", "rcp_enter_new_price"}
    IN  IF last_price # None THEN PriceButtons(payloads, last_price, "last")
        ELSE PriceButtons(payloads, products[product_id].purchase_price_cents,
                          "purchase")

rcp_input_quantity(s, text) ==
    /\ Ready(s)
    /\ fsm_state[s] = "ReceiptStates:waiting_qty"
    /\ LET parsed     == Decimal(strip(ReplaceComma(text)))
           quantity   == parsed.val
           data       == [fsm_data[s] EXCEPT !.current_quantity = quantity]
           product_id == data.current_product_id
       IN  IF ~parsed.ok \/ parsed.nan \/ quantity <= 0
           THEN UNCHANGED fsmvars
           ELSE IF \/ product_id = None \/ data.counterparty_id = None
                   \/ product_id \notin DOMAIN products
           THEN StoreFsm(s, fsm_state[s], data, buttons[s])
           ELSE \E last_price \in last_purchase_price(data.counterparty_id, product_id) :
                StoreFsm(s, "ReceiptStates:waiting_price", data,
                         receipt_price_prompt(last_price, product_id))
    /\ UNCHANGED <<task, dbvars, hist>>

\* (The variant that asks "add more?" without appending the line.)
rcp_process_price_selection_asks_only(s, price_cents) ==
    LET data       == fsm_data[s]
        product_id == data.current_product_id
    IN  IF \/ product_id = None \/ data.current_quantity = None
           \/ data.counterparty_id = None \/ product_id \notin DOMAIN products
        THEN UNCHANGED fsmvars
        ELSE StoreFsm(s, "ReceiptStates:confirming_add_more", data,
                      Keyboard({"rcp_add_more", "rcp_finish"}))

rcp_process_price_selection(s, price_cents) ==
    LET data       == fsm_data[s]
        product_id == data.current_product_id
        item       == [line_number          |-> line_number(data.items),
                       product_id           |-> product_id,
                       product_name         |-> products[product_id].name,
                       product_code         |-> products[product_id].code,
                       quantity             |-> data.current_quantity,
                       purchase_price_cents |-> price_cents]
    IN  IF \/ product_id = None \/ data.current_quantity = None
           \/ data.counterparty_id = None \/ product_id \notin DOMAIN products
        THEN UNCHANGED fsmvars
        ELSE StoreFsm(s, "ReceiptStates:confirming_add_more",
                      [data EXCEPT !.items = Append(data.items, item)],
                      Keyboard({"rcp_add_more", "rcp_finish"}))

rcp_use_last_price(s) ==
    /\ Ready(s)
    /\ fsm_state[s] = "ReceiptStates:waiting_price"
    /\ buttons[s].use_last_price # None
    /\ Len(fsm_data[s].items) < MaxLines
    /\ rcp_process_price_selection(s, int(str(buttons[s].use_last_price)))
    /\ UNCHANGED <<task, dbvars, hist>>

rcp_enter_new_price(s) ==
    /\ Ready(s)
    /\ fsm_state[s] = "ReceiptStates:waiting_price"
    /\ StoreFsm(s, "ReceiptStates:waiting_new_price", fsm_data[s], NoButtons)
    /\ UNCHANGED <<task, dbvars, hist>>

rcp_input_new_price(s, text) ==
    /\ Ready(s)
    /\ fsm_state[s] = "ReceiptStates:waiting_new_price"
    /\ LET price == price_to_cents(text)
       IN  IF ~price.ok THEN UNCHANGED fsmvars
           ELSE /\ Len(fsm_data[s].items) < MaxLines
                /\ rcp_process_price_selection(s, price.cents)
    /\ UNCHANGED <<task, dbvars, hist>>

\* (The variant that writes the draft's prices to the products at once.)
rcp_add_more_items_persists(s) ==
    /\ Ready(s)
    /\ fsm_state[s] = "ReceiptStates:confirming_add_more"
    /\ StoreFsm(s, "ReceiptStates:waiting_product", fsm_data[s],
                Keyboard({"rcp_p:", "rcp_finish"}))
    /\ products' = [p \in DOMAIN products |->
                       [products[p] EXCEPT !.purchase_price_cents = 0]]
    /\ UNCHANGED <<task, shipments, receipts, constants, id_seq, hist>>

rcp_add_more_items(s) ==
    /\ Ready(s)
    /\ fsm_state[s] = "ReceiptStates:confirming_add_more"
    /\ StoreFsm(s, "ReceiptStates:waiting_product", fsm_data[s],
                Keyboard({"rcp_p:", "rcp_finish"}))
    /\ UNCHANGED <<task, dbvars, hist>>

\* A press of "rcp_finish" while the session is not at "add more?".
finish_receipt_unhandled(s) ==
    /\ Ready(s)
    /\ fsm_state[s] # "ReceiptStates:confirming_add_more"
    /\ hist' = [hist EXCEPT !.unhandled = @ \cup {"rcp_finish"}]
    /\ UNCHANGED <<fsmvars, task, dbvars>>

\* finish_receipt: the number of the new document.
next_receipt_number ==
    LET const_number == ConstantValue("last_receipt_number")
        last_doc     == SeqMax(DocNumbers(receipts), None)
    IN  IF TruthyStr(const_number) THEN int(const_number) + 1
        ELSE (IF TruthyInt(last_doc) THEN last_doc ELSE 0) + 1

finish_receipt(s) ==
    /\ Ready(s)
    /\ fsm_state[s] = "ReceiptStates:confirming_add_more"
    /\ LET data == fsm_data[s]
       IN  IF data.counterparty_id = None
           THEN UNCHANGED <<task, id_seq, hist>>
           ELSE IF not_items_data(data.items)
           THEN /\ hist' = [hist EXCEPT !.empty_finish = @ \cup {"receipt"}]
                /\ UNCHANGED <<task, id_seq>>
           ELSE /\ Len(receipts) + InFlight("receipt") < MaxDocs
                /\ task' = [task EXCEPT ![s] =
                       [pc |-> "flushed", kind |-> "receipt",
                        doc_number |-> next_receipt_number,
                        id |-> id_seq.receipts + 1,
                        const_number |-> ConstantValue("last_receipt_number"),
                        last_doc |-> SeqMax(DocNumbers(receipts), None)]]
                /\ id_seq' = [id_seq EXCEPT !.receipts = @ + 1]
                /\ hist' = [hist EXCEPT !.before[s] = Snapshot(s)]
    /\ UNCHANGED <<fsmvars, products, shipments, receipts, constants>>

receipt_item(stored_item) ==
    [line_number          |-> stored_item.line_number,
     product_id           |-> stored_item.product_id,
     product_name         |-> stored_item.product_name,
     product_code         |-> stored_item.product_code,
     quantity             |-> Numeric_12_3(stored_item.quantity),
     purchase_price_cents |-> stored_item.purchase_price_cents]

receipt_items_raise(items_data) ==
    \E i \in DOMAIN items_data : items_data[i].product_id \notin DOMAIN products

\* (The variant in which the first line of a product wins.)
RECURSIVE set_purchase_prices_first_wins(_, _)
set_purchase_prices_first_wins(prods, items_data) ==
    IF items_data = <<>> THEN prods
    ELSE LET n == Len(items_data)
         IN  set_purchase_prices_first_wins(
                [prods EXCEPT ![items_data[n].product_id].purchase_price_cents =
                    items_data[n].purchase_price_cents],
                SubSeq(items_data, 1, n - 1))

\* product.purchase_price_cents = stored_item["purchase_price_cents"], line by
\* line in the loop of finish_receipt.
RECURSIVE set_purchase_prices(_, _)
set_purchase_prices(prods, items_data) ==
    IF items_data = <<>> THEN prods
    ELSE set_purchase_prices(
            [prods EXCEPT ![Head(items_data).product_id].purchase_price_cents =
                Head(items_data).purchase_price_cents],
            Tail(items_data))

finish_receipt_commit(s) ==
    /\ task[s].pc = "flushed" /\ task[s].kind = "receipt"
    /\ LET items_data == fsm_data[s].items
           header     == [id |-> task[s].id, doc_number |-> task[s].doc_number,
                          counterparty_id |-> fsm_data[s].counterparty_id,
                          items |-> <<>>]
       IN  IF receipt_items_raise(items_data)
           THEN /\ receipts' = rollback(receipts, header)
                /\ products' = products
                /\ task' = [task EXCEPT ![s] = Idle]
                /\ hist' = [hist EXCEPT !.before[s] = NoBefore,
                                        !.failure = Failure(s, "flushed", TRUE)]
           ELSE /\ receipts' = Append(receipts,
                       [header EXCEPT !.items =
                           [i \in DOMAIN items_data |-> receipt_item(items_data[i])]])
                /\ products' = set_purchase_prices(products, items_data)
                /\ task' = [task EXCEPT ![s].pc = "committed"]
                /\ hist' = [hist EXCEPT !.commit =
                       Commit(s, receipts),
                       !.failure = IF @.kind = "receipt" THEN NoFailure ELSE @]
    /\ UNCHANGED <<fsmvars, shipments, constants, id_seq>>

finish_receipt_number(s) ==
    /\ task[s].pc = "committed" /\ task[s].kind = "receipt"
    /\ constants' = UpsertConstant("last_receipt_number", str(task[s].doc_number))
    /\ task' = [task EXCEPT ![s].pc = "numbered"]
    /\ UNCHANGED <<fsmvars, products, shipments, receipts, id_seq, hist>>

finish_receipt_clear(s) ==
    /\ task[s].pc = "numbered" /\ task[s].kind = "receipt"
    /\ StoreFsm(s, NoState, EmptyData, main_menu_kb)
    /\ task' = [task EXCEPT ![s] = Idle]
    /\ hist' = [hist EXCEPT !.before[s] = NoBefore]
    /\ UNCHANGED dbvars

(***************************************************************************)
(* routers/constants.py                                                    *)
(***************************************************************************)
manage_constants(s) ==
    /\ Ready(s)
    /\ StoreFsm(s, fsm_state[s], fsm_data[s],
                Keyboard({"edit_shipment_number", "edit_receipt_number", "main"}))
    /\ UNCHANGED <<task, dbvars, hist>>

edit_shipment_number(s) ==
    /\ Ready(s)
    /\ StoreFsm(s, "ConstantsStates:waiting_shipment_number", fsm_data[s], NoButtons)
    /\ UNCHANGED <<task, dbvars, hist>>

edit_receipt_number(s) ==
    /\ Ready(s)
    /\ StoreFsm(s, "ConstantsStates:waiting_receipt_number", fsm_data[s], NoButtons)
    /\ UNCHANGED <<task, dbvars, hist>>

\* {"otmena", "cancel"}
Cancel == {<<"o", "t", "m", "e", "n", "a">>, <<"c", "a", "n", "c", "e", "l">>}

\* int(text) of Python with the `number < 0` check: digits with an optional
\* sign.
parse_number(text) ==
    LET signed == text # <<>> /\ text[1] \in {"-", "+"}
        body   == IF signed THEN Tail(text) ELSE text
        ok     == body # <<>> /\ AllDigits(body)
        number == IF signed /\ text[1] = "-" THEN 0 - int(body) ELSE int(body)
    IN  IF ok /\ number >= 0 THEN [ok |-> TRUE, number |-> number]
        ELSE [ok |-> FALSE, number |-> 0]

save_number(s, text, key) ==
    LET cleaned == lower(strip(text))
        parsed  == parse_number(cleaned)
    IN  IF cleaned \in Cancel
        THEN /\ StoreFsm(s, NoState, EmptyData, main_menu_kb)
             /\ UNCHANGED <<constants, hist>>
        ELSE IF ~parsed.ok
        THEN UNCHANGED <<fsmvars, constants, hist>>
        ELSE /\ hist.edits < MaxEdits
             /\ constants' = UpsertConstant(key, str(parsed.number))
             /\ hist' = [hist EXCEPT !.edits = @ + 1]
             /\ StoreFsm(s, NoState, EmptyData, main_menu_kb)

\* (The variant that stores the shipment number under the receipts' key.)
save_shipment_number_under_receipt_key(s, text) ==
    /\ Ready(s)
    /\ fsm_state[s] = "ConstantsStates:waiting_shipment_number"
    /\ save_number(s, text, "last_receipt_number")
    /\ UNCHANGED <<task, products, shipments, receipts, id_seq>>

save_shipment_number(s, text) ==
    /\ Ready(s)
    /\ fsm_state[s] = "ConstantsStates:waiting_shipment_number"
    /\ save_number(s, text, "last_shipment_number")
    /\ UNCHANGED <<task, products, shipments, receipts, id_seq>>

save_receipt_number(s, text) ==
    /\ Ready(s)
    /\ fsm_state[s] = "ConstantsStates:waiting_receipt_number"
    /\ save_number(s, text, "last_receipt_number")
    /\ UNCHANGED <<task, products, shipments, receipts, id_seq>>

(***************************************************************************)
(* The users.  A user presses only buttons that are on the keyboard of the *)
(* last prompt of the chat, sends /start only to a chat at rest, and types *)
(* the texts below.                                                        *)
(***************************************************************************)
Press(s, payload) == payload \in buttons[s].kb

\* A press of a button of an earlier message of the chat.
StalePress(s, payload) == payload \in buttons[s].earlier

AtRest(s) == fsm_state[s] = NoState /\ buttons[s].kb = {}

\* No other session is inside a conversation or a handler.
Solo(s) == \A t \in Sessions \ {s} : fsm_state[t] = NoState /\ task[t].pc = "idle"

AIK    == CHOOSE i \in CounterpartyIds : COUNTERPARTIES[i] = "AIK"
Vektor == CHOOSE i \in CounterpartyIds : COUNTERPARTIES[i] = "Vektor"
Losos  == CHOOSE i \in ProductIds : PRODUCTS[i].name = "Losos 6-7"
Navaga == CHOOSE i \in ProductIds : PRODUCTS[i].name = "Navaga M"

One     == <<"1">>
Two     == <<" ", "2">>
Half    == <<"0", ",", "5">>
Zero    == <<"0">>
Garbage == <<"x">>
Inf     == <<"I", "n", "f">>
Tiny    == <<"0", ".", "0", "0", "0", "4">>
Kopecks29 == <<"0", ".", "2", "9">>
Rubles115 == <<"1", ",", "1", "5">>

\* The steps below take the order in which the specification lets the
\* sessions move: "solo", a session moves only while no other session is
\* inside a conversation, or "any".
Turn(order, s) == order = "any" \/ Solo(s)

MenuSteps(order, s) ==
    \/ Turn(order, s) /\ AtRest(s) /\ cmd_start(s)
    \/ Turn(order, s) /\ Press(s, "main") /\ back_main(s)

\* The plain path of a receipt: supplier, product, quantity, the suggested
\* price.
ReceiptPath(order, s, cps, ps, qtys) ==
    \/ Turn(order, s) /\ Press(s, "start_receipt") /\ start_receipt(s)
    \/ \E cp \in cps : Turn(order, s) /\ Press(s, "rcp_cp:") /\ rcp_chosen_counterparty(s, cp)
    \/ \E p \in ps : Turn(order, s) /\ Press(s, "rcp_p:") /\ rcp_chosen_product(s, p)
    \/ \E text \in qtys : Turn(order, s) /\ rcp_input_quantity(s, text)
    \/ Turn(order, s) /\ Press(s, "rcp_use_last_price:") /\ rcp_use_last_price(s)

ReceiptMoreSteps(order, s) ==
    Turn(order, s) /\ Press(s, "rcp_add_more") /\ rcp_add_more_items(s)

ReceiptPriceSteps(order, s, prices) ==
    \/ Turn(order, s) /\ Press(s, "rcp_enter_new_price") /\ rcp_enter_new_price(s)
    \/ \E text \in prices : Turn(order, s) /\ rcp_input_new_price(s, text)

FinishReceiptSteps(order, s) ==
    \/ Turn(order, s) /\ Press(s, "rcp_finish") /\ finish_receipt(s)
    \/ Turn(order, s) /\ finish_receipt_commit(s)
    \/ Turn(order, s) /\ finish_receipt_number(s)
    \/ Turn(order, s) /\ finish_receipt_clear(s)

\* The plain path of a shipment.
ShipmentPath(order, s, cps, ps, qtys) ==
    \/ Turn(order, s) /\ Press(s, "start_shipment") /\ start_shipment(s)
    \/ \E cp \in cps : Turn(order, s) /\ Press(s, "cp:") /\ chosen_counterparty(s, cp)
    \/ \E p \in ps : Turn(order, s) /\ Press(s, "p:") /\ chosen_product(s, p)
    \/ \E text \in qtys : Turn(order, s) /\ input_quantity(s, text)
    \/ Turn(order, s) /\ Press(s, "use_last_price:") /\ use_last_price(s)

ShipmentMoreSteps(order, s) ==
    Turn(order, s) /\ Press(s, "add_more") /\ add_more_items(s)

\* The ways out of "not enough stock".
ShortageSteps(order, s) ==
    \/ Turn(order, s) /\ Press(s, "enter_different_qty") /\ enter_different_qty(s)
    \/ Turn(order, s) /\ Press(s, "use_stock_qty:") /\ use_stock_qty(s)
    \/ Turn(order, s) /\ Press(s, "back_to_product") /\ back_to_product(s)

ShipmentBackSteps(order, s) ==
    \/ Turn(order, s) /\ Press(s, "back_to_product") /\ back_to_product_from_price(s)
    \/ Turn(order, s) /\ Press(s, "back_to_product") /\ back_to_product_from_confirm(s)

ShipmentPriceSteps(order, s, prices) ==
    \/ Turn(order, s) /\ Press(s, "enter_new_price") /\ enter_new_price(s)
    \/ \E text \in prices : Turn(order, s) /\ input_new_price(s, text)

FinishShipmentSteps(order, s) ==
    \/ Turn(order, s) /\ Press(s, "finish_shipment") /\ finish_shipment(s)
    \/ Turn(order, s) /\ finish_shipment_commit(s)
    \/ Turn(order, s) /\ finish_shipment_number(s)
    \/ Turn(order, s) /\ finish_shipment_clear(s)

FaultSteps(order, s) ==
    \/ Turn(order, s) /\ fault_before_commit(s)
    \/ Turn(order, s) /\ fault_before_number(s)
    \/ Turn(order, s) /\ fault_before_clear(s)

\* Presses of counterparty buttons of earlier messages while the database
\* fails.
StaleSteps(order, s, cps) ==
    \/ \E cp \in cps : Turn(order, s) /\ chosen_counterparty_raises(s, cp)
    \/ \E cp \in cps : Turn(order, s) /\ rcp_chosen_counterparty_raises(s, cp)

\* /start sent while a keyboard is shown, and the presses of the lists of
\* earlier messages (the handler's prompt counts as the last keyboard).
RestartSteps(order, s) ==
    Turn(order, s) /\ buttons[s].kb # {} /\ cmd_start(s)

StaleReceiptSteps(order, s, cps, ps) ==
    \/ \E cp \in cps :
          Turn(order, s) /\ StalePress(s, "rcp_cp:") /\ rcp_chosen_counterparty(s, cp)
    \/ \E p \in ps :
          Turn(order, s) /\ StalePress(s, "rcp_p:") /\ rcp_chosen_product(s, p)

ConstantsSteps(order, s, texts) ==
    \/ Turn(order, s) /\ Press(s, "manage_constants") /\ manage_constants(s)
    \/ Turn(order, s) /\ Press(s, "edit_shipment_number") /\ edit_shipment_number(s)
    \/ Turn(order, s) /\ Press(s, "edit_receipt_number") /\ edit_receipt_number(s)
    \/ \E text \in texts : Turn(order, s) /\ save_shipment_number(s, text)
    \/ \E text \in texts : Turn(order, s) /\ save_receipt_number(s, text)

(***************************************************************************)
(* SpecSeq: the conversations run one after another (a session moves only  *)
(* while no other session is inside a conversation), nothing fails, nobody *)
(* opens the constants screen.                                             *)
(***************************************************************************)
NextSeq ==
    \E s \in Sessions :
        \/ Solo(s) /\ AtRest(s) /\ cmd_start(s)
        \/ ReceiptPath("solo", s, {Vektor}, {Losos}, {One})
        \/ ReceiptMoreSteps("solo", s)
        \/ FinishReceiptSteps("solo", s)
        \/ ShipmentPath("solo", s, {Vektor}, {Losos}, {One})
        \/ ShipmentMoreSteps("solo", s)
        \/ Solo(s) /\ Press(s, "back_to_product") /\ back_to_product(s)
        \/ FinishShipmentSteps("solo", s)

SpecSeq == Init /\ [][NextSeq]_vars

(***************************************************************************)
(* SpecLedger: one user books receipts and shipments of two products, with *)
(* quantities above and below the stock and with a price typed in, one     *)
(* line per document.                                                      *)
(***************************************************************************)
\* The quantities typed into a shipment and the prices typed under SpecLedger.
LedgerQuantities == {One, Two, Garbage, Inf}
LedgerPrices     == {Zero, Garbage}

NextLedger ==
    \E s \in {"u1"} :
        \/ AtRest(s) /\ cmd_start(s)
        \/ ReceiptPath("any", s, {Vektor}, {Losos, Navaga}, {Two, Half})
        \/ ReceiptPriceSteps("any", s, LedgerPrices)
        \/ FinishReceiptSteps("any", s)
        \/ ShipmentPath("any", s, {Vektor}, {Losos, Navaga}, LedgerQuantities)
        \/ ShortageSteps("any", s)
        \/ ShipmentPriceSteps("any", s, {Zero})
        \/ FinishShipmentSteps("any", s)

SpecLedger == Init /\ [][NextLedger]_vars

(***************************************************************************)
(* Spec: the conversations run one after another; a finish handler may be  *)
(* left by an exception at any of its stages, and the constants screen is  *)
(* used between conversations.                                             *)
(***************************************************************************)
CancelText == <<"C", "a", "n", "c", "e", "l", " ">>

Next ==
    \E s \in Sessions :
        \/ Solo(s) /\ AtRest(s) /\ cmd_start(s)
        \/ ReceiptPath("solo", s, {Vektor}, {Losos}, {One})
        \/ FinishReceiptSteps("solo", s)
        \/ ShipmentPath("solo", s, {Vektor}, {Losos}, {One})
        \/ Solo(s) /\ Press(s, "back_to_product") /\ back_to_product(s)
        \/ FinishShipmentSteps("solo", s)
        \/ FaultSteps("solo", s)
        \/ ConstantsSteps("solo", s, {Zero, CancelText, Garbage})

Spec == Init /\ [][Next]_vars

(***************************************************************************)
(* SpecConc: two users at once, every handler interleaved with every       *)
(* other, nothing fails.                                                   *)
(***************************************************************************)
NextConc ==
    \E s \in Sessions :
        \/ AtRest(s) /\ cmd_start(s)
        \/ ReceiptPath("any", s, {Vektor}, {Losos}, {One})
        \/ FinishReceiptSteps("any", s)

SpecConc == Init /\ [][NextConc]_vars

(***************************************************************************)
(* SpecDrafts: two users at once, one booking receipts and the other       *)
(* shipments, every step of the one interleaved with every step of the     *)
(* other.                                                                  *)
(***************************************************************************)
NextDrafts ==
    \/ \E s \in {"u1"} :
          \/ AtRest(s) /\ cmd_start(s)
          \/ ReceiptPath("any", s, {Vektor}, {Losos}, {Two})
          \/ FinishReceiptSteps("any", s)
    \/ \E s \in {"u2"} :
          \/ MenuSteps("any", s)
          \/ ShipmentPath("any", s, {Vektor}, {Losos}, {One})
          \/ ShipmentMoreSteps("any", s)
          \/ ShipmentBackSteps("any", s)
          \/ Press(s, "back_to_product") /\ back_to_product(s)
          \/ FinishShipmentSteps("any", s)

SpecDrafts == Init /\ [][NextDrafts]_vars

(***************************************************************************)
(* SpecPrices: one user books receipts and shipments of two products for   *)
(* two counterparties, one line per document, while a second user holds a  *)
(* shipment draft that is never finished.                                  *)
(***************************************************************************)
NextPrices ==
    \/ \E s \in {"u1"} :
          \/ AtRest(s) /\ cmd_start(s)
          \/ ReceiptPath("any", s, {Vektor}, {Losos, Navaga}, {Two})
          \/ FinishReceiptSteps("any", s)
          \/ ShipmentPath("any", s, {Vektor, AIK}, {Losos, Navaga}, {One})
          \/ FinishShipmentSteps("any", s)
    \/ \E s \in {"u2"} :
          \/ AtRest(s) /\ cmd_start(s)
          \/ ShipmentPath("any", s, {Vektor}, {Losos}, {One})

SpecPrices == Init /\ [][NextPrices]_vars

(***************************************************************************)
(* SpecStale: one user books receipts and shipments of one line; once the  *)
(* database fails while a counterparty button of an earlier message is     *)
(* handled.                                                                *)
(***************************************************************************)
NextStale ==
    \E s \in {"u1"} :
        \/ AtRest(s) /\ cmd_start(s)
        \/ ReceiptPath("any", s, {Vektor}, {Losos}, {One})
        \/ FinishReceiptSteps("any", s)
        \/ ShipmentPath("any", s, {Vektor}, {Losos}, {One})
        \/ Turn("any", s) /\ Press(s, "back_to_product") /\ back_to_product(s)
        \/ FinishShipmentSteps("any", s)
        \/ StaleSteps("any", s, {AIK})

SpecStale == Init /\ [][NextStale]_vars

(***************************************************************************)
(* SpecReceipts: one user books receipts of up to MaxLines lines of two    *)
(* products, with the offered price or a price typed in.                   *)
(***************************************************************************)
NextReceipts ==
    \E s \in {"u1"} :
        \/ AtRest(s) /\ cmd_start(s)
        \/ ReceiptPath("any", s, {Vektor}, {Losos, Navaga}, {One})
        \/ ReceiptMoreSteps("any", s)
        \/ ReceiptPriceSteps("any", s, {Zero})
        \/ FinishReceiptSteps("any", s)

SpecReceipts == Init /\ [][NextReceipts]_vars

(***************************************************************************)
(* SpecPresses: one user books receipts of one line, sends /start in the   *)
(* middle of a conversation and presses buttons of the lists left in the   *)
(* chat.                                                                   *)
(***************************************************************************)
NextPresses ==
    \E s \in {"u1"} :
        \/ AtRest(s) /\ cmd_start(s)
        \/ RestartSteps("any", s)
        \/ ReceiptPath("any", s, {Vektor}, {Losos}, {One})
        \/ FinishReceiptSteps("any", s)
        \/ StaleReceiptSteps("any", s, {AIK}, {Losos})

SpecPresses == Init /\ [][NextPresses]_vars

(***************************************************************************)
(* SpecSteps: one user walks every step of both workflows for one product: *)
(* lists, quantities within and above the stock, offered and typed prices, *)
(* add more, the back buttons, the main menu, finish.                      *)
(***************************************************************************)
NextSteps ==
    \E s \in {"u1"} :
        \/ MenuSteps("any", s)
        \/ ReceiptPath("any", s, {Vektor}, {Losos}, {Half})
        \/ ReceiptMoreSteps("any", s)
        \/ FinishReceiptSteps("any", s)
        \/ ShipmentPath("any", s, {Vektor}, {Losos}, {One})
        \/ ShipmentMoreSteps("any", s)
        \/ ShortageSteps("any", s)
        \/ ShipmentBackSteps("any", s)
        \/ ShipmentPriceSteps("any", s, {Zero})
        \/ FinishShipmentSteps("any", s)

SpecSteps == Init /\ [][NextSteps]_vars

(***************************************************************************)
(* SpecFractions: one user books receipts and shipments of one line, with  *)
(* quantities of one unit and of less than a thousandth.                   *)
(***************************************************************************)
NextFractions ==
    \E s \in {"u1"} :
        \/ AtRest(s) /\ cmd_start(s)
        \/ ReceiptPath("any", s, {Vektor}, {Losos}, {One, Tiny})
        \/ FinishReceiptSteps("any", s)
        \/ ShipmentPath("any", s, {Vektor}, {Losos}, {One, Tiny})
        \/ Turn("any", s) /\ Press(s, "back_to_product") /\ back_to_product(s)
        \/ FinishShipmentSteps("any", s)

SpecFractions == Init /\ [][NextFractions]_vars

(***************************************************************************)
(* SpecCents: one user books receipts and shipments of one line at typed   *)
(* prices with kopecks.                                                    *)
(***************************************************************************)
CentTexts == {Half, Kopecks29, Rubles115}

NextCents ==
    \E s \in {"u1"} :
        \/ AtRest(s) /\ cmd_start(s)
        \/ ReceiptPath("any", s, {Vektor}, {Losos}, {One})
        \/ ReceiptPriceSteps("any", s, CentTexts)
        \/ FinishReceiptSteps("any", s)
        \/ ShipmentPath("any", s, {Vektor}, {Losos}, {One})
        \/ ShipmentPriceSteps("any", s, CentTexts)
        \/ FinishShipmentSteps("any", s)

SpecCents == Init /\ [][NextCents]_vars

(***************************************************************************)
(* SpecKinds: one user books receipts and shipments of one product, sends  *)
(* /start in the middle of a conversation and presses the product lists    *)
(* left in the chat by the other workflow.                                 *)
(***************************************************************************)
StaleProductSteps(order, s, ps) ==
    \E p \in ps :
        Turn(order, s) /\ StalePress(s, "rcp_p:") /\ rcp_chosen_product(s, p)

NextKinds ==
    \E s \in {"u1"} :
        \/ AtRest(s) /\ cmd_start(s)
        \/ Turn("any", s) /\ Press(s, "rcp_p:") /\ cmd_start(s)
        \/ ReceiptPath("any", s, {Vektor}, {Losos}, {One})
        \/ FinishReceiptSteps("any", s)
        \/ ShipmentPath("any", s, {Vektor}, {Losos}, {One})
        \/ FinishShipmentSteps("any", s)
        \/ StaleProductSteps("any", s, {Losos})

SpecKinds == Init /\ [][NextKinds]_vars

(***************************************************************************)
(* SpecFinish: one user books receipts and shipments of up to two lines    *)
(* and presses the finish button of the product list shown after "add      *)
(* more".                                                                  *)
(***************************************************************************)
UnhandledFinishSteps(order, s) ==
    \/ Turn(order, s) /\ Press(s, "finish_shipment") /\ finish_shipment_unhandled(s)
    \/ Turn(order, s) /\ Press(s, "rcp_finish") /\ finish_receipt_unhandled(s)

NextFinish ==
    \E s \in {"u1"} :
        \/ AtRest(s) /\ cmd_start(s)
        \/ ReceiptPath("any", s, {Vektor}, {Losos}, {One})
        \/ ReceiptMoreSteps("any", s)
        \/ FinishReceiptSteps("any", s)
        \/ ShipmentPath("any", s, {Vektor}, {Losos}, {One})
        \/ ShipmentMoreSteps("any", s)
        \/ FinishShipmentSteps("any", s)
        \/ UnhandledFinishSteps("any", s)

SpecFinish == Init /\ [][NextFinish]_vars

(***************************************************************************)
(* SpecQuantities: one user books receipts of two units and shipments of   *)
(* up to two lines with two quantities, within and above the stock.        *)
(***************************************************************************)
QuantityTexts == {One, Two}

NextQuantities ==
    \E s \in {"u1"} :
        \/ AtRest(s) /\ cmd_start(s)
        \/ ReceiptPath("any", s, {Vektor}, {Losos}, {Two})
        \/ FinishReceiptSteps("any", s)
        \/ ShipmentPath("any", s, {Vektor}, {Losos}, QuantityTexts)
        \/ ShipmentMoreSteps("any", s)
        \/ ShortageSteps("any", s)
        \/ FinishShipmentSteps("any", s)

SpecQuantities == Init /\ [][NextQuantities]_vars

(***************************************************************************)
(* SpecCounterparties: one user books receipts and shipments of one        *)
(* product for two counterparties, leaves drafts for the main menu and      *)
(* begins again.                                                           *)
(***************************************************************************)
NextCounterparties ==
    \E s \in {"u1"} :
        \/ MenuSteps("any", s)
        \/ ReceiptPath("any", s, {Vektor, AIK}, {Losos}, {One})
        \/ FinishReceiptSteps("any", s)
        \/ ShipmentPath("any", s, {Vektor, AIK}, {Losos}, {One})
        \/ Turn("any", s) /\ Press(s, "back_to_product")
                          /\ back_to_product_from_confirm(s)
        \/ FinishShipmentSteps("any", s)

SpecCounterparties == Init /\ [][NextCounterparties]_vars

(***************************************************************************)
(* SpecRace: two users at once; one books receipts, at the offered price   *)
(* or at a typed one, and shipments, the other books shipments of the same *)
(* product; one line per document.                                         *)
(***************************************************************************)
NextRace ==
    \/ \E s \in {"u1"} :
          \/ AtRest(s) /\ cmd_start(s)
          \/ ReceiptPath("any", s, {Vektor}, {Losos}, {Two})
          \/ ReceiptPriceSteps("any", s, {Zero})
          \/ FinishReceiptSteps("any", s)
    \/ \E s \in Sessions :
          \/ AtRest(s) /\ cmd_start(s)
          \/ ShipmentPath("any", s, {Vektor}, {Losos}, {Two})
          \/ Turn("any", s) /\ Press(s, "back_to_product") /\ back_to_product(s)
          \/ FinishShipmentSteps("any", s)

SpecRace == Init /\ [][NextRace]_vars

(***************************************************************************)
(* Properties.                                                             *)
(***************************************************************************)
KindKey == [shipment |-> "last_shipment_number", receipt |-> "last_receipt_number"]
Docs(kind) == IF kind = "shipment" THEN shipments ELSE receipts
Kinds == {"shipment", "receipt"}

\* The lines of product p in the persisted documents, summed document by
\* document and line by line.
RECURSIVE LineSum(_, _)
LineSum(lines, p) ==
    IF lines = <<>> THEN 0
    ELSE (IF Head(lines).product_id = p THEN Head(lines).quantity ELSE 0)
         + LineSum(Tail(lines), p)

RECURSIVE DocSum(_, _)
DocSum(docs, p) ==
    IF docs = <<>> THEN 0 ELSE LineSum(Head(docs).items, p) + DocSum(Tail(docs), p)

LedgerBalance(p) == DocSum(receipts, p) - DocSum(shipments, p)

\* C2: without manual edits of the constants, in every reachable state - the
\* one between the document commit and the counter commit included - a
\* stored last-issued number of a kind equals the highest docNumber among
\* the persisted documents of the kind.
C2_CounterMatchesDocuments ==
    \A kind \in Kinds :
        ConstantValue(KindKey[kind]) # <<>> =>
            int(ConstantValue(KindKey[kind])) = SeqMax(DocNumbers(Docs(kind)), 0)

\* C1: the documents of a kind carry pairwise distinct numbers that
\* strictly increase in commit order, also when finalizations of several
\* sessions run concurrently.
C1_DistinctAndIncreasing ==
    \A kind \in Kinds :
        \A i \in DOMAIN Docs(kind) : \A j \in DOMAIN Docs(kind) :
            i < j => Docs(kind)[i].doc_number < Docs(kind)[j].doc_number

\* C3: when a step of a finalization fails, nothing of the attempt is
\* persisted (no header, no line, no counter change, no price change), and
\* the session's state and draft are as before the attempt.
C3_FailedFinalizePersistsNothing ==
    hist.failure.kind # "none" => hist.failure.clean /\ hist.failure.draft_kept

\* C4: after any sequence of non-overlapping finalizations and saves of the
\* last number on the constants screen, no two persisted documents of a
\* kind carry the same number.
C4_NumbersNeverReused ==
    \A kind \in Kinds :
        \A i \in DOMAIN Docs(kind) : \A j \in DOMAIN Docs(kind) :
            i # j => Docs(kind)[i].doc_number # Docs(kind)[j].doc_number

\* C5: in a sequential run without failures and without edits of the
\* constants, each finalized document of a kind carries the number of the
\* previous document of the kind plus one.
C5_ConsecutiveNumbers ==
    \A kind \in Kinds :
        \A i \in 1 .. Len(Docs(kind)) - 1 :
            Docs(kind)[i + 1].doc_number = Docs(kind)[i].doc_number + 1

\* Two shipments have been finalized one after the other, and the handler of
\* the second has run to its end.
C5_Witness ==
    /\ Len(shipments) = 2
    /\ hist.commit.kind = "shipment"
    /\ \A s \in Sessions : task[s].pc = "idle"

\* C6: the number a finalization assigns is the stored last number plus
\* one whenever a last number is stored for the kind (0 included), and
\* otherwise the highest number among the documents of the kind plus one,
\* which is 1 when the kind has no document.
C6_NumberRule ==
    /\ \A s \in Sessions :
          task[s].pc # "idle" =>
              task[s].doc_number =
                  IF task[s].const_number # <<>> THEN int(task[s].const_number) + 1
                  ELSE IF task[s].last_doc # None THEN task[s].last_doc + 1
                  ELSE 1
    /\ hist.commit.kind # "none" =>
          hist.commit.doc_number =
              IF hist.commit.const_number # <<>> THEN int(hist.commit.const_number) + 1
              ELSE hist.commit.max_before + 1

\* A shipment exists, the stored last number was set to 0, and the next
\* shipment has been committed.
C6_Witness ==
    /\ Len(shipments) = 2
    /\ hist.commit.kind = "shipment"
    /\ hist.commit.const_number = <<"0">>

\* C7: after a finalization that failed between computing its number and
\* the commit of the document, no document of the kind carries that number,
\* and the next finalization of the kind that succeeds is numbered with the
\* highest existing number of the kind plus one.
C7_AbortLeavesNumberFree ==
    /\ hist.failure.stage = "flushed" =>
          \A i \in DOMAIN Docs(hist.failure.kind) :
              Docs(hist.failure.kind)[i].doc_number # hist.failure.doc_number
    /\ hist.commit.after_fault =>
          hist.commit.doc_number = hist.commit.max_before + 1

\* C8: a step of one session leaves the state, the pending fields and the
\* draft lines of every other session as they were, and the draft it leaves
\* for its own session is its own previous draft, kept, emptied or extended
\* by one line.
C8_DraftIsolation ==
    [][\A a \in Sessions : \A b \in Sessions \ {a} :
          (fsm_state'[a] # fsm_state[a] \/ fsm_data'[a] # fsm_data[a]
             \/ task'[a] # task[a]) =>
              /\ fsm_state'[b] = fsm_state[b]
              /\ fsm_data'[b] = fsm_data[b]
              /\ LET old == fsm_data[a].items
                     new == fsm_data'[a].items
                 IN  \/ new = old
                     \/ new = <<>>
                     \/ Len(new) = Len(old) + 1 /\ SubSeq(new, 1, Len(old)) = old]_vars

\* Both sessions hold a draft with lines, and the drafts differ.
C8_Witness ==
    /\ fsm_data["u1"].items # <<>>
    /\ Len(fsm_data["u2"].items) = 2
    /\ fsm_data["u1"].items # fsm_data["u2"].items
    /\ fsm_state["u1"] = "ReceiptStates:confirming_add_more"
    /\ fsm_state["u2"] = "ShipmentStates:confirming_add_more"

\* C9: the balance of every product in the stock report equals the sum of
\* the quantities of its persisted receipt lines minus the sum of the
\* quantities of its persisted shipment lines (0 without lines), and the
\* quantity check of a shipment compares the typed quantity against that
\* value: the conversation goes to "not enough stock" exactly when the
\* quantity exceeds it.
C9_StockIsReceiptsMinusShipments ==
    /\ [](\A p \in ProductIds : current_stock_balance(p) = LedgerBalance(p))
    /\ [][\A s \in Sessions :
            fsm_state[s] = "ShipmentStates:waiting_qty" =>
                LET p == fsm_data[s].current_product_id
                IN  /\ fsm_state'[s] = "ShipmentStates:stock_insufficient" =>
                           fsm_data'[s].requested_quantity > LedgerBalance(p)
                    /\ fsm_state'[s] = "ShipmentStates:waiting_price" =>
                           fsm_data'[s].current_quantity <= LedgerBalance(p)]_vars

\* A product has receipt lines and shipment lines, a balance left, and a
\* quantity typed for it was found to exceed the balance.
C9_Witness ==
    \E p \in ProductIds :
        /\ DocSum(receipts, p) > 0 /\ DocSum(shipments, p) > 0
        /\ LedgerBalance(p) > 0
        /\ fsm_state["u1"] = "ShipmentStates:stock_insufficient"
        /\ fsm_data["u1"].current_product_id = p
        /\ fsm_data["u1"].requested_quantity > LedgerBalance(p)

\* C10: once a shipment to counterparty C with a line of product P at a
\* price X >= 0 is finalized, the next price prompt of a shipment for (C, P)
\* offers X as the remembered price (not the product's default price).
C10_LastPriceIsSuggested ==
    \A s \in Sessions :
        fsm_state[s] = "ShipmentStates:waiting_price" =>
            LET remembered == last_sale_price(fsm_data[s].counterparty_id,
                                              fsm_data[s].current_product_id)
            IN  remembered # {None} =>
                    /\ buttons[s].caption = "last"
                    /\ buttons[s].use_last_price \in remembered

\* Whether a committed shipment of counterparty cp has a line of product p.
ShippedTo(cp, p) ==
    \E i \in DOMAIN shipments :
        /\ shipments[i].counterparty_id = cp
        /\ \E j \in DOMAIN shipments[i].items : shipments[i].items[j].product_id = p

\* C11: when no committed shipment of counterparty C has a line of product
\* P, the price prompt of a shipment for (C, P) offers P's current retail
\* price as the default price - whatever shipments of other counterparties
\* or of other products, receipts and drafts of any session there are.
C11_DefaultIsRetailPrice ==
    [][\A s \in Sessions :
          (fsm_state[s] # "ShipmentStates:waiting_price"
             /\ fsm_state'[s] = "ShipmentStates:waiting_price") =>
              LET cp == fsm_data'[s].counterparty_id
                  p  == fsm_data'[s].current_product_id
              IN  ~ShippedTo(cp, p) =>
                      /\ buttons'[s].caption = "retail"
                      /\ buttons'[s].use_last_price = products[p].retail_price_cents]_vars

\* The prompt offers Losos to Vektor at the retail price while Losos was
\* shipped to AIK, Navaga was shipped to Vektor, Losos was received from
\* Vektor and the other session's draft holds a line of Losos for Vektor.
C11_Witness ==
    /\ fsm_state["u1"] = "ShipmentStates:waiting_price"
    /\ fsm_data["u1"].counterparty_id = Vektor
    /\ fsm_data["u1"].current_product_id = Losos
    /\ buttons["u1"].caption = "retail"
    /\ ShippedTo(AIK, Losos) /\ ShippedTo(Vektor, Navaga) /\ ~ShippedTo(Vektor, Losos)
    /\ DocSum(receipts, Losos) > 0
    /\ fsm_data["u2"].counterparty_id = Vektor
    /\ fsm_data["u2"].items # <<>>

\* The committed receipts of counterparty cp that have a line of product p.
ReceivedFrom(cp, p) ==
    {i \in DOMAIN receipts :
        /\ receipts[i].counterparty_id = cp
        /\ \E j \in DOMAIN receipts[i].items : receipts[i].items[j].product_id = p}

\* C12: the price prompt of a receipt for (C, P) offers, as the last price,
\* the price of the line of P in the newest committed receipt of C that has
\* one - a price of 0 included; when there is no such receipt it offers P's
\* current purchase price as the default price.
C12_ReceiptPriceResolution ==
    [][\A s \in Sessions :
          (fsm_state[s] # "ReceiptStates:waiting_price"
             /\ fsm_state'[s] = "ReceiptStates:waiting_price") =>
              LET cp   == fsm_data'[s].counterparty_id
                  p    == fsm_data'[s].current_product_id
                  docs == ReceivedFrom(cp, p)
              IN  IF docs = {}
                  THEN /\ buttons'[s].caption = "purchase"
                       /\ buttons'[s].use_last_price = products[p].purchase_price_cents
                  ELSE /\ buttons'[s].caption = "last"
                       /\ \E i \in docs :
                            /\ \A k \in docs : receipts[k].id <= receipts[i].id
                            /\ \E j \in DOMAIN receipts[i].items :
                                 /\ receipts[i].items[j].product_id = p
                                 /\ buttons'[s].use_last_price =
                                        receipts[i].items[j].purchase_price_cents]_vars

\* The prompt offers the last price 0 for a product last received at 0 after
\* an earlier receipt of the pair at another price.
C12_Witness ==
    /\ fsm_state["u1"] = "ReceiptStates:waiting_price"
    /\ buttons["u1"].caption = "last"
    /\ buttons["u1"].use_last_price = 0
    /\ \E i \in ReceivedFrom(fsm_data["u1"].counterparty_id,
                             fsm_data["u1"].current_product_id) :
          \E j \in DOMAIN receipts[i].items : receipts[i].items[j].purchase_price_cents > 0

\* The states of a shipment between the quantity and the appended line.
PricingStates == {"ShipmentStates:waiting_price", "ShipmentStates:waiting_new_price"}

\* C13: a quantity above the balance takes the shipment to "not enough
\* stock" without adding a line, and the button offered carries the balance;
\* accepting it takes the shipment to the price prompt with the pending
\* quantity equal to that balance; the pending quantity stays until the
\* price is chosen, and the line appended then carries it.
C13_CappedQuantityBecomesTheLine ==
    [][\A s \in Sessions :
          LET p    == fsm_data[s].current_product_id
              old  == fsm_data[s].items
              new  == fsm_data'[s].items
          IN  /\ (fsm_state[s] = "ShipmentStates:waiting_qty"
                    /\ fsm_state'[s] = "ShipmentStates:stock_insufficient") =>
                      /\ new = old
                      /\ fsm_data'[s].requested_quantity > LedgerBalance(p)
                      /\ LedgerBalance(p) > 0 =>
                            Decimal(buttons'[s].use_stock_qty).val = LedgerBalance(p)
              /\ (fsm_state[s] = "ShipmentStates:stock_insufficient"
                    /\ fsm_state'[s] = "ShipmentStates:waiting_price") =>
                      /\ new = old
                      /\ fsm_data'[s].current_quantity = Decimal(buttons[s].use_stock_qty).val
                      /\ fsm_data'[s].current_quantity = LedgerBalance(p)
              /\ (fsm_state[s] \in PricingStates /\ fsm_state'[s] \in PricingStates) =>
                      /\ new = old
                      /\ fsm_data'[s].current_quantity = fsm_data[s].current_quantity
              /\ (fsm_state[s] \in PricingStates
                    /\ fsm_state'[s] = "ShipmentStates:confirming_add_more") =>
                      /\ Len(new) = Len(old) + 1
                      /\ SubSeq(new, 1, Len(old)) = old
                      /\ new[Len(new)].product_id = p
                      /\ new[Len(new)].quantity = fsm_data[s].current_quantity]_vars

\* The draft's line carries half a unit - the balance, a quantity no
\* shipment input of SpecLedger spells - after a larger quantity was asked.
C13_Witness ==
    /\ fsm_state["u1"] = "ShipmentStates:confirming_add_more"
    /\ fsm_data["u1"].items # <<>>
    /\ LET line == fsm_data["u1"].items[Len(fsm_data["u1"].items)]
       IN  /\ line.quantity = Decimal(ReplaceComma(Half)).val
           /\ line.quantity = LedgerBalance(line.product_id)
           /\ fsm_data["u1"].requested_quantity > line.quantity

\* C14: a valid positive quantity q typed for a shipment takes it to the
\* price prompt when q <= the balance of the pending product (q equal to the
\* balance included) and to "not enough stock" when q exceeds it; neither
\* changes the draft's lines.
C14_QuantityWithinBalance ==
    [][\A s \in Sessions : \A text \in LedgerQuantities :
          LET q == Decimal(strip(ReplaceComma(text)))
              p == fsm_data[s].current_product_id
          IN  (input_quantity(s, text) /\ q.ok /\ q.val > 0) =>
                  /\ fsm_data'[s].items = fsm_data[s].items
                  /\ IF q.val <= LedgerBalance(p)
                     THEN fsm_state'[s] = "ShipmentStates:waiting_price"
                     ELSE fsm_state'[s] = "ShipmentStates:stock_insufficient"]_vars

\* The typed quantity equals the whole balance and the shipment stands at
\* the price prompt, never having met a shortage.
C14_Witness ==
    /\ fsm_state["u1"] = "ShipmentStates:waiting_price"
    /\ fsm_data["u1"].requested_quantity = None
    /\ fsm_data["u1"].current_quantity > 0
    /\ fsm_data["u1"].current_quantity = LedgerBalance(fsm_data["u1"].current_product_id)

\* C15: a shipment leaves "not enough stock" only for the quantity prompt
\* or - when the balance is greater than zero - for the price prompt.
C15_TwoExitsFromStockInsufficient ==
    [][\A s \in Sessions :
          (fsm_state[s] = "ShipmentStates:stock_insufficient"
             /\ fsm_state'[s] # "ShipmentStates:stock_insufficient") =>
              \/ fsm_state'[s] = "ShipmentStates:waiting_qty"
              \/ /\ fsm_state'[s] = "ShipmentStates:waiting_price"
                 /\ LedgerBalance(fsm_data[s].current_product_id) > 0]_vars

\* A quantity text that is not a number or is <= 0, and a price text that
\* is not a number or is negative.
BadQuantity(text) ==
    LET q == Decimal(strip(ReplaceComma(text)))
    IN  ~q.ok \/ q.nan \/ q.val <= 0 \/ q.val = Infinity

BadPrice(text) ==
    LET x == Decimal(ReplaceComma(strip(text)))
    IN  ~x.ok \/ x.nan \/ x.val < 0 \/ x.val = Infinity

\* C16: a quantity text that is not a number or is <= 0, and a price text
\* that is not a number or is negative, leave the workflow state, the
\* pending product, the pending quantity and the draft's lines of the
\* session as they were and persist nothing, for shipments and receipts.
C16_MalformedInputChangesNothing ==
    [][\A s \in Sessions :
          /\ \A text \in LedgerQuantities \cup {Two, Half} :
                ((input_quantity(s, text) \/ rcp_input_quantity(s, text))
                    /\ BadQuantity(text)) =>
                        UNCHANGED <<fsm_state, fsm_data, dbvars>>
          /\ \A text \in LedgerPrices :
                ((input_new_price(s, text) \/ rcp_input_new_price(s, text))
                    /\ BadPrice(text)) =>
                        UNCHANGED <<fsm_state, fsm_data, dbvars>>]_vars

LinesOf(doc, p) == {j \in DOMAIN doc.items : doc.items[j].product_id = p}

C19_MainMenuClearsTheDraft ==
    [][\A s \in Sessions :
          (back_main(s) /\ fsm_state[s] # NoState) =>
              /\ fsm_state'[s] = NoState
              /\ fsm_data'[s] = EmptyData
              /\ UNCHANGED dbvars]_vars

\* C20: the start of a shipment or of a receipt in a session whose draft
\* has lines leaves the draft's workflow state, counterparty and lines as
\* they were.
C20_StartKeepsTheActiveDraft ==
    [][\A s \in Sessions :
          ((start_shipment(s) \/ start_receipt(s)) /\ fsm_data[s].items # <<>>) =>
              /\ fsm_state'[s] = fsm_state[s]
              /\ fsm_data'[s].counterparty_id = fsm_data[s].counterparty_id
              /\ fsm_data'[s].items = fsm_data[s].items]_vars

\* C21: a product choice, a quantity, a price, an "add more" or a finish
\* received by a session without a workflow state changes neither the
\* session's state nor its data and persists nothing.
C21_NoDraftNoStep ==
    [][\A s \in Sessions :
          (fsm_state[s] = NoState /\
             \/ \E p \in ProductIds : chosen_product(s, p) \/ rcp_chosen_product(s, p)
             \/ \E text \in {One} : input_quantity(s, text) \/ rcp_input_quantity(s, text)
             \/ use_last_price(s) \/ rcp_use_last_price(s)
             \/ add_more_items(s) \/ rcp_add_more_items(s)
             \/ finish_shipment(s) \/ finish_receipt(s)) =>
              UNCHANGED <<fsm_state, fsm_data, dbvars>>]_vars

\* C26: inside a workflow a counterparty selection received in a state
\* other than the counterparty prompt of its kind, and a product selection
\* received in a state other than the product prompt of its kind, change
\* neither the workflow state nor the draft.
C26_SelectionsOnlyInTheirState ==
    [][\A s \in Sessions :
          fsm_state[s] # NoState =>
            /\ (fsm_state[s] # "ShipmentStates:waiting_counterparty"
                  /\ \E cp \in CounterpartyIds : chosen_counterparty(s, cp)) =>
                      UNCHANGED <<fsm_state, fsm_data>>
            /\ (fsm_state[s] # "ReceiptStates:waiting_counterparty"
                  /\ \E cp \in CounterpartyIds : rcp_chosen_counterparty(s, cp)) =>
                      UNCHANGED <<fsm_state, fsm_data>>
            /\ (fsm_state[s] # "ShipmentStates:waiting_product"
                  /\ \E p \in ProductIds : chosen_product(s, p)) =>
                      UNCHANGED <<fsm_state, fsm_data>>
            /\ (fsm_state[s] # "ReceiptStates:waiting_product"
                  /\ \E p \in ProductIds : rcp_chosen_product(s, p)) =>
                      UNCHANGED <<fsm_state, fsm_data>>]_vars

\* C22: in every reachable state the i-th line of every draft has line
\* number i, and every step that lengthens a draft keeps the earlier lines,
\* with all their fields, in their order.
C22_LinesKeepTheirNumbers ==
    /\ [](\A s \in Sessions : \A i \in DOMAIN fsm_data[s].items :
              fsm_data[s].items[i].line_number = i)
    /\ [][\A s \in Sessions :
            LET old == fsm_data[s].items
                new == fsm_data'[s].items
            IN  Len(new) > Len(old) => SubSeq(new, 1, Len(old)) = old]_vars

\* A shipment draft of two lines, numbered 1 and 2, that differ in price.
C22_Witness ==
    /\ fsm_state["u1"] = "ShipmentStates:confirming_add_more"
    /\ Len(fsm_data["u1"].items) = 2
    /\ fsm_data["u1"].items[1].line_number = 1
    /\ fsm_data["u1"].items[2].line_number = 2
    /\ fsm_data["u1"].items[1].sale_price_cents # fsm_data["u1"].items[2].sale_price_cents

\* Whether a persisted row equals a draft line in line number, product,
\* name and code, quantity and prices.
SameLine(row, line) ==
    /\ row.line_number = line.line_number
    /\ row.product_id = line.product_id
    /\ row.product_name = line.product_name
    /\ row.product_code = line.product_code
    /\ row.quantity = line.quantity
    /\ row.purchase_price_cents = line.purchase_price_cents
    /\ "sale_price_cents" \in DOMAIN line => row.sale_price_cents = line.sale_price_cents

\* The document of kind k persisted by the step, for the session whose finish
\* handler persisted it: one header with the draft's counterparty and one
\* row per draft line, in draft order, equal to the draft line.
PersistsTheDraft(s, docs, docs_after) ==
    /\ Len(docs_after) = Len(docs) + 1
    /\ SubSeq(docs_after, 1, Len(docs)) = docs
    /\ LET doc == docs_after[Len(docs_after)]
       IN  /\ doc.counterparty_id = fsm_data[s].counterparty_id
           /\ Len(doc.items) = Len(fsm_data[s].items)
           /\ \A i \in DOMAIN doc.items : SameLine(doc.items[i], fsm_data[s].items[i])

\* C23: the step of a finish handler that commits the document persists
\* exactly one header with the draft's counterparty and one row per draft
\* line, in draft order, each row equal to its draft line in line number,
\* product, name and code, quantity and prices.
C23_DocumentEqualsDraft ==
    [][\A s \in Sessions :
          (task[s].pc = "flushed" /\ task'[s].pc = "committed") =>
              IF task[s].kind = "shipment"
              THEN PersistsTheDraft(s, shipments, shipments') /\ receipts' = receipts
              ELSE PersistsTheDraft(s, receipts, receipts') /\ shipments' = shipments]_vars

\* C30: every line of every draft and every persisted shipment or receipt
\* line has a quantity greater than zero.
C30_QuantitiesArePositive ==
    /\ \A s \in Sessions : \A i \in DOMAIN fsm_data[s].items :
          fsm_data[s].items[i].quantity > 0
    /\ \A i \in DOMAIN ShipmentItems : ShipmentItems[i].quantity > 0
    /\ \A i \in DOMAIN ReceiptItems : ReceiptItems[i].quantity > 0

\* C24: every step in which no finish handler is at work - start, the
\* selections, quantities, the shortage buttons, prices, add more, back, the
\* main menu - leaves the documents with their lines, the last-number
\* constants and the products as they were.
C24_StepsPersistNothing ==
    [][(\A s \in Sessions : task[s].pc = "idle" /\ task'[s].pc = "idle") =>
          UNCHANGED <<products, shipments, receipts, constants>>]_vars

\* A shipment draft with a line was left for the main menu; no shipment and
\* no shipment number is persisted.
C24_Witness ==
    /\ fsm_data["u1"].items # <<>>
    /\ fsm_state["u1"] = "ShipmentStates:waiting_product"
    /\ buttons["u1"].kb = main_menu_kb.kb
    /\ shipments = <<>>
    /\ ConstantValue("last_shipment_number") = <<>>

AppendsLine(s, st, field, price) ==
    LET old == fsm_data[s].items
        new == fsm_data'[s].items
    IN  /\ fsm_state'[s] = st
        /\ Len(new) = Len(old) + 1
        /\ SubSeq(new, 1, Len(old)) = old
        /\ new[Len(new)].product_id = fsm_data[s].current_product_id
        /\ new[Len(new)].quantity = fsm_data[s].current_quantity
        /\ new[Len(new)][field] = price

C25_StockCheckReservesNothing ==
    [][\A s \in Sessions :
          /\ \A text \in {Two} :
                LET q == Decimal(strip(ReplaceComma(text))).val
                IN  input_quantity(s, text) =>
                        (fsm_state'[s] = "ShipmentStates:waiting_price")
                            = (q <= LedgerBalance(fsm_data[s].current_product_id))
          /\ (task[s].pc = "flushed" /\ task[s].kind = "shipment"
                /\ task'[s] # task[s]) =>
                    /\ task'[s].pc = "committed"
                    /\ Len(shipments') = Len(shipments) + 1
                    /\ Len(shipments'[Len(shipments')].items) = Len(fsm_data[s].items)]_vars

\* Two shipments that each passed the check against the same balance are
\* both persisted, each with its line, and the balance is negative.
C25_Witness ==
    /\ Len(shipments) = 2
    /\ \A i \in DOMAIN shipments : Len(shipments[i].items) = 1
    /\ LedgerBalance(Losos) < 0

\* C29: the cost of a shipment line is the value computed when the line is
\* appended, and the commit persists that value for the line, whatever has
\* happened to the product's purchase price and to its shipment lines in
\* between.
C29_CostIsFixedAtAppend ==
    [][\A s \in Sessions :
          /\ (fsm_state[s] \in PricingStates
                /\ fsm_state'[s] = "ShipmentStates:confirming_add_more") =>
                    LET new == fsm_data'[s].items
                    IN  new[Len(new)].purchase_price_cents =
                            get_average_purchase_price(fsm_data[s].current_product_id)
          /\ (task[s].pc = "flushed" /\ task[s].kind = "shipment"
                /\ task'[s].pc = "committed") =>
                    LET doc == shipments'[Len(shipments')]
                    IN  \A i \in DOMAIN doc.items :
                            doc.items[i].purchase_price_cents =
                                fsm_data[s].items[i].purchase_price_cents]_vars

\* The first shipment was persisted with the cost its line got at append,
\* while a receipt finished in between has changed the product's purchase
\* price.
C29_Witness ==
    /\ Len(shipments) = 1
    /\ \E s \in Sessions : task[s].pc = "committed" /\ task[s].kind = "shipment"
    /\ \E j \in DOMAIN shipments[1].items :
          LET row == shipments[1].items[j]
          IN  /\ row.purchase_price_cents = PRODUCTS[row.product_id].purchase_price_cents
              /\ row.purchase_price_cents # products[row.product_id].purchase_price_cents

\* C31: a typed price that is a non-negative decimal number of rubles with
\* at most two fractional digits is stored on the appended line as exactly
\* that value times 100, in cents, for shipments and receipts.
C31_CentsAreExact ==
    [][\A s \in Sessions : \A text \in CentTexts :
          LET x == Decimal(ReplaceComma(strip(text)))
          IN  (~BadPrice(text) /\ x.val % 100 = 0) =>
                /\ input_new_price(s, text) =>
                      AppendsLine(s, "ShipmentStates:confirming_add_more",
                                  "sale_price_cents", x.val \div 100)
                /\ rcp_input_new_price(s, text) =>
                      AppendsLine(s, "ReceiptStates:confirming_add_more",
                                  "purchase_price_cents", x.val \div 100)]_vars

\* C32: a persisted receipt holds only lines appended by the receipt price
\* step and a persisted shipment only lines appended by the shipment price
\* step (the lines of the shipment price step carry a sale price).
C32_DraftsDoNotMixKinds ==
    [][\A s \in Sessions :
          /\ (finish_receipt_commit(s) /\ receipts' # receipts) =>
                \A i \in DOMAIN fsm_data[s].items :
                    "sale_price_cents" \notin DOMAIN fsm_data[s].items[i]
          /\ (finish_shipment_commit(s) /\ shipments' # shipments) =>
                \A i \in DOMAIN fsm_data[s].items :
                    "sale_price_cents" \in DOMAIN fsm_data[s].items[i]]_vars

\* C33: with one session and no other writer, finalizing a shipment while
\* every product's balance is >= 0 leaves every product's balance >= 0,
\* also for a draft with several lines of one product.
C33_OneSessionKeepsBalancesNonNegative ==
    [][\A s \in Sessions :
          (/\ finish_shipment_commit(s)
           /\ \A p \in ProductIds : LedgerBalance(p) >= 0) =>
                \A p \in ProductIds : LedgerBalance(p)' >= 0]_vars

ConfirmingStates ==
    {"ShipmentStates:confirming_add_more", "ReceiptStates:confirming_add_more"}

\* C35: the finish button is acted on only at "add more?": pressed on the
\* product list shown after "add more" it changes neither the state nor the
\* draft nor the storage; a finalization begins only at "add more?", and a
\* session comes to "add more?" only by a step that appends one line.
C35_FinishOnlyAtAddMore ==
    [][\A s \in Sessions :
          /\ (finish_shipment_unhandled(s) \/ finish_receipt_unhandled(s)) =>
                UNCHANGED <<fsm_state, fsm_data, dbvars, task>>
          /\ (task[s].pc = "idle" /\ task'[s].pc # "idle") =>
                fsm_state[s] \in ConfirmingStates
          /\ (fsm_state[s] \notin ConfirmingStates
                 /\ fsm_state'[s] \in ConfirmingStates) =>
                Len(fsm_data'[s].items) = Len(fsm_data[s].items) + 1]_vars

\* The finish button of the product list was pressed after "add more", and
\* the shipment was persisted later, with the line appended after the press.
C35_Witness ==
    /\ "finish_shipment" \in hist.unhandled
    /\ shipments # <<>>
    /\ Len(shipments[1].items) = 2

QuantityStates ==
    {"ShipmentStates:waiting_qty", "ShipmentStates:stock_insufficient",
     "ReceiptStates:waiting_qty"}

PriceStates ==
    PricingStates \cup {"ReceiptStates:waiting_price", "ReceiptStates:waiting_new_price"}

\* The step stores the quantity as the pending quantity of s and keeps the
\* pending product.
SetsQuantity(s, quantity) ==
    /\ fsm_state[s] \in QuantityStates
    /\ fsm_data'[s].current_quantity = quantity
    /\ fsm_data'[s].current_product_id = fsm_data[s].current_product_id

\* C36: a session at a price prompt holds a pending quantity that was set
\* after its pending product was last selected: selecting a product leads to
\* the quantity prompt, the pending product changes by no other step, a
\* price prompt is entered only by a step that stores the typed or the
\* capped quantity, the price prompts keep product and quantity, and the
\* appended line carries them.
C36_QuantityIsSetAfterTheProduct ==
    [][\A s \in Sessions :
          /\ \A p \in ProductIds :
                (chosen_product(s, p) \/ rcp_chosen_product(s, p)) =>
                    fsm_state'[s] \in QuantityStates
          /\ fsm_data'[s].current_product_id # fsm_data[s].current_product_id =>
                \/ \E p \in ProductIds : chosen_product(s, p) \/ rcp_chosen_product(s, p)
                \/ fsm_data'[s] = EmptyData
          /\ (fsm_state[s] \notin PriceStates /\ fsm_state'[s] \in PriceStates) =>
                \/ \E text \in QuantityTexts :
                      /\ input_quantity(s, text) \/ rcp_input_quantity(s, text)
                      /\ SetsQuantity(s, Decimal(strip(ReplaceComma(text))).val)
                \/ /\ use_stock_qty(s)
                   /\ SetsQuantity(s, Decimal(buttons[s].use_stock_qty).val)
          /\ (fsm_state[s] \in PriceStates /\ fsm_state'[s] \in PriceStates) =>
                /\ fsm_data'[s].current_quantity = fsm_data[s].current_quantity
                /\ fsm_data'[s].current_product_id = fsm_data[s].current_product_id
          /\ Len(fsm_data'[s].items) > Len(fsm_data[s].items) =>
                /\ fsm_state[s] \in PriceStates
                /\ fsm_data'[s].items[Len(fsm_data'[s].items)].quantity
                      = fsm_data[s].current_quantity
                /\ fsm_data'[s].items[Len(fsm_data'[s].items)].product_id
                      = fsm_data[s].current_product_id]_vars

\* A shipment draft holds a first line of one unit and stands at the price
\* prompt of its second line with the pending quantity two.
C36_Witness ==
    /\ fsm_state["u1"] = "ShipmentStates:waiting_price"
    /\ Len(fsm_data["u1"].items) = 1
    /\ fsm_data["u1"].items[1].quantity = 10000
    /\ fsm_data["u1"].current_quantity = 20000

\* C37: selecting a counterparty empties the draft's list of lines and the
\* counterparty of a draft changes by no other step, a line is appended
\* under the counterparty the draft has, and the document persisted carries
\* the draft's counterparty and the draft's lines: no document holds lines
\* collected under another counterparty.
C37_LinesBelongToTheCounterparty ==
    [][\A s \in Sessions :
          /\ \A cp \in CounterpartyIds :
                (chosen_counterparty(s, cp) \/ rcp_chosen_counterparty(s, cp)) =>
                    /\ fsm_data'[s].items = <<>>
                    /\ fsm_data'[s].counterparty_id = cp
          /\ fsm_data'[s].counterparty_id # fsm_data[s].counterparty_id =>
                fsm_data'[s].items = <<>>
          /\ Len(fsm_data'[s].items) > Len(fsm_data[s].items) =>
                fsm_data'[s].counterparty_id = fsm_data[s].counterparty_id
          /\ (finish_shipment_commit(s) /\ shipments' # shipments) =>
                /\ shipments'[Len(shipments')].counterparty_id
                      = fsm_data[s].counterparty_id
                /\ Len(shipments'[Len(shipments')].items) = Len(fsm_data[s].items)
          /\ (finish_receipt_commit(s) /\ receipts' # receipts) =>
                /\ receipts'[Len(receipts')].counterparty_id
                      = fsm_data[s].counterparty_id
                /\ Len(receipts'[Len(receipts')].items) = Len(fsm_data[s].items)]_vars

\* A shipment draft with a line (its quantity is still in the session data)
\* was left for the main menu and the other counterparty was selected: the
\* new draft has no line.
C37_Witness ==
    /\ fsm_state["u1"] = "ShipmentStates:waiting_product"
    /\ buttons["u1"].kb = {"p:", "main"}
    /\ fsm_data["u1"].counterparty_id = AIK
    /\ fsm_data["u1"].current_quantity # None
    /\ fsm_data["u1"].items = <<>>
    /\ shipments = <<>>

\* The steps of the finish handler of each kind.
FinishesShipment(s) ==
    \/ finish_shipment(s) \/ finish_shipment_commit(s)
    \/ finish_shipment_number(s) \/ finish_shipment_clear(s)

FinishesReceipt(s) ==
    \/ finish_receipt(s) \/ finish_receipt_commit(s)
    \/ finish_receipt_number(s) \/ finish_receipt_clear(s)

\* C38: the two kinds are numbered independently: the steps that finalize a
\* shipment leave the receipts, the stored last receipt number and the next
\* receipt number unchanged, the steps that finalize a receipt leave the
\* shipments and their numbers unchanged, and saving one kind's last number
\* on the constants screen leaves the other kind's stored and next number
\* unchanged.
C38_KindsAreNumberedIndependently ==
    [][\A s \in Sessions :
          /\ (FinishesShipment(s)
                 \/ \E text \in {Zero, CancelText, Garbage} : save_shipment_number(s, text)) =>
                /\ receipts' = receipts
                /\ ConstantValue("last_receipt_number")'
                      = ConstantValue("last_receipt_number")
                /\ next_receipt_number' = next_receipt_number
          /\ (FinishesReceipt(s)
                 \/ \E text \in {Zero, CancelText, Garbage} : save_receipt_number(s, text)) =>
                /\ shipments' = shipments
                /\ ConstantValue("last_shipment_number")'
                      = ConstantValue("last_shipment_number")
                /\ next_shipment_number' = next_shipment_number]_vars

\* A shipment and a receipt are persisted, the last shipment number was then
\* set to 0 on the constants screen, and the receipts' numbers stand as the
\* receipt left them.
C38_Witness ==
    /\ Len(shipments) = 1 /\ Len(receipts) = 1
    /\ hist.edits = 1
    /\ ConstantValue("last_shipment_number") = <<"0">>
    /\ ConstantValue("last_receipt_number") = <<"1">>
    /\ next_receipt_number = 2

\* C39: at every reachable state, every persisted shipment and every
\* persisted receipt has at least one line: the header and its lines are
\* committed together, and a header flushed by an attempt that fails before
\* the commit is not persisted.
C39_DocumentsHaveLines ==
    \A kind \in Kinds :
        \A i \in DOMAIN Docs(kind) : Len(Docs(kind)[i].items) >= 1

\* A receipt is persisted with its line, and a later finalization of a
\* receipt has failed between the flush of its header and the commit: the
\* receipts still hold the one document.
C39_Witness ==
    /\ hist.failure.kind = "receipt" /\ hist.failure.stage = "flushed"
    /\ hist.failure.doc_number = 2
    /\ Len(receipts) = 1 /\ Len(receipts[1].items) = 1

====
